---------------------------- MODULE Spec2Model ----------------------------
(***************************************************************************)
(* Backtest engine and walk-forward validator of the crypto analysis       *)
(* repository (BacktestService: runBacktest, runWalkForwardAnalysis) with  *)
(* the indicator functions of services/cryptoApi.ts they call.             *)
(*                                                                         *)
(* Numbers.  The code computes in IEEE doubles.  Here prices are positive  *)
(* integers; stops, targets, equity, PnL and drawdown are exact rationals  *)
(* <<n, d>> (d > 0, lowest terms); the Wilder averages of the RSI and the   *)
(* EMA are fixed-point integers with FP units per price unit, divisions    *)
(* rounding down.  An RSI value is 100*G/(G+L) of the two fixed-point      *)
(* averages, itself in fixed point; it is 0 exactly when G = 0 < L.        *)
(*                                                                         *)
(* Arrays are 0-based in the code and 1-based here: At(s, i) is s[i].      *)
(***************************************************************************)
EXTENDS Integers, Sequences, FiniteSets, TLC

(***************************************************************************)
(* Optional values: <<>> is undefined / null, <<x>> is the value x.        *)
(***************************************************************************)
None == <<>>
Some(x) == <<x>>
IsSome(o) == o /= <<>>
Val(o) == o[1]

At(s, i) == s[i + 1]
Last(s) == s[Len(s)]
\* s.slice(a, b) of the code: elements a .. b-1 (0-based), clipped to the array.
Slice(s, a, b) == SubSeq(s, a + 1, IF b > Len(s) THEN Len(s) ELSE b)

Abs(x) == IF x < 0 THEN -x ELSE x

(***************************************************************************)
(* Exact rational arithmetic.                                              *)
(***************************************************************************)
RECURSIVE Gcd(_, _)
Gcd(a, b) == IF b = 0 THEN a ELSE Gcd(b, a % b)

Lcm(a, b) == (a \div Gcd(a, b)) * b

RNorm(n, d) ==
    LET g == Gcd(Abs(n), Abs(d))
        s == IF d < 0 THEN -1 ELSE 1
    IN  IF n = 0 THEN <<0, 1>> ELSE <<s * (n \div g), s * (d \div g)>>

RInt(n) == <<n, 1>>
RAdd(a, b) == LET l == Lcm(a[2], b[2])
              IN  RNorm(a[1] * (l \div a[2]) + b[1] * (l \div b[2]), l)
RNeg(a) == <<-a[1], a[2]>>
RSub(a, b) == RAdd(a, RNeg(b))
RMul(a, b) == LET g1 == Gcd(Abs(a[1]), b[2])
                  g2 == Gcd(Abs(b[1]), a[2])
                  h1 == IF g1 = 0 THEN 1 ELSE g1
                  h2 == IF g2 = 0 THEN 1 ELSE g2
              IN  RNorm((a[1] \div h1) * (b[1] \div h2), (a[2] \div h2) * (b[2] \div h1))
\* b /= 0
RDiv(a, b) == RMul(a, IF b[1] < 0 THEN <<-b[2], -b[1]>> ELSE <<b[2], b[1]>>)
RLt(a, b) == LET l == Lcm(a[2], b[2])
             IN  a[1] * (l \div a[2]) < b[1] * (l \div b[2])
RLe(a, b) == ~RLt(b, a)
RAbs(a) == <<Abs(a[1]), a[2]>>
RZero == <<0, 1>>


(***************************************************************************)
(* Fixed point: FP units per price unit (and per RSI point).               *)
(***************************************************************************)
FP == 10 * 10 * 10

(***************************************************************************)
(* Loops over an array are written as balanced recursions (the left half,  *)
(* then the right half from the state the left half ends in): the same     *)
(* steps in the same order, at a recursion depth of log(length).  TLC      *)
(* evaluates an operator's argument only where it is used; Forced(v) is    *)
(* TRUE and has v evaluated before the right half starts.                  *)
(***************************************************************************)
Forced(v) == v = v

Range(s) == {s[k] : k \in 1..Len(s)}

\* Math.min / Math.max over a non-empty sequence of integers.
MinOf(s) == CHOOSE x \in Range(s) : \A y \in Range(s) : x <= y
MaxOf(s) == CHOOSE x \in Range(s) : \A y \in Range(s) : x >= y

\* s[lo] + ... + s[hi]
RECURSIVE SumRange(_, _, _)
SumRange(s, lo, hi) ==
    IF lo > hi THEN 0
    ELSE IF lo = hi THEN s[lo]
    ELSE LET mid == (lo + hi) \div 2
         IN  SumRange(s, lo, mid) + SumRange(s, mid + 1, hi)
Sum(s) == SumRange(s, 1, Len(s))

(***************************************************************************)
(* cryptoApi.ts: calculateEMA.  The result's defined entries are fixed     *)
(* point, NaN is None.  k = 2/(period+1).                                  *)
(***************************************************************************)
\* one pass of the loop "for (i = period; ...)": s = [ema, emaArray]
EMAStep(prices, period, s, i) ==
    LET e == (At(prices, i) * FP * 2 + s.ema * (period - 1)) \div (period + 1)
    IN  [ema |-> e, emaArray |-> Append(s.emaArray, Some(e))]

\* the passes i = lo .. hi-1
RECURSIVE EMALoop(_, _, _, _, _)
EMALoop(prices, period, s, lo, hi) ==
    IF lo >= hi THEN s
    ELSE IF hi = lo + 1 THEN EMAStep(prices, period, s, lo)
    ELSE LET mid == (lo + hi) \div 2
             left == EMALoop(prices, period, s, lo, mid)
         IN  IF Forced(left) THEN EMALoop(prices, period, left, mid, hi) ELSE left

calculateEMA(prices, period) ==
    IF Len(prices) < period THEN [k \in 1..Len(prices) |-> None]
    ELSE LET seed == (SumRange(prices, 1, period) * FP) \div period
         IN  EMALoop(prices, period,
                     [ema |-> seed,
                      emaArray |-> [k \in 1..period |-> IF k < period THEN None
                                                        ELSE Some(seed)]],
                     period, Len(prices)).emaArray

(***************************************************************************)
(* cryptoApi.ts: calculateRSIArray (Wilder smoothing).  avgGain and        *)
(* avgLoss are fixed point; a defined entry is the RSI in fixed point,     *)
(* 100*G/(G+L), and exactly 100 when avgLoss = 0.                          *)
(***************************************************************************)
Change(prices, i) == IF i = 0 THEN 0 ELSE At(prices, i) - At(prices, i - 1)

\* the seed sums over j = 1 .. period
SeedGain(prices, period) ==
    Sum([j \in 1..period |-> IF Change(prices, j) > 0 THEN Change(prices, j) ELSE 0])
SeedLoss(prices, period) ==
    Sum([j \in 1..period |-> IF Change(prices, j) > 0 THEN 0
                                                      ELSE Abs(Change(prices, j))])

\* the relative strength in percent, not mapped into 0..100
RsiValueAsRatio(avgGain, avgLoss) ==
    IF avgLoss = 0 THEN 100 * FP ELSE (100 * avgGain * FP) \div avgLoss

RsiValue(avgGain, avgLoss) ==
    IF avgLoss = 0 THEN 100 * FP
    ELSE LET n == 100 * avgGain
             d == avgGain + avgLoss
         IN  (n \div d) * FP + ((n % d) * FP) \div d

\* one pass of the loop at an index i >= period: s = [avgGain, avgLoss, rsiArray]
RSIStep(prices, period, s, i) ==
    LET change == Change(prices, i)
        gain == IF change > 0 THEN change ELSE 0
        loss == IF change < 0 THEN Abs(change) ELSE 0
        g == IF i = period THEN (SeedGain(prices, period) * FP) \div period
             ELSE (s.avgGain * (period - 1) + gain * FP) \div period
        l == IF i = period THEN (SeedLoss(prices, period) * FP) \div period
             ELSE (s.avgLoss * (period - 1) + loss * FP) \div period
    IN  [avgGain |-> g, avgLoss |-> l,
         rsiArray |-> Append(s.rsiArray, Some(RsiValue(g, l)))]

\* the passes i = lo .. hi-1
RECURSIVE RSILoop(_, _, _, _, _)
RSILoop(prices, period, s, lo, hi) ==
    IF lo >= hi THEN s
    ELSE IF hi = lo + 1 THEN RSIStep(prices, period, s, lo)
    ELSE LET mid == (lo + hi) \div 2
             left == RSILoop(prices, period, s, lo, mid)
         IN  IF Forced(left) THEN RSILoop(prices, period, left, mid, hi) ELSE left

calculateRSIArray(prices, period) ==
    IF Len(prices) < period + 1 THEN [k \in 1..Len(prices) |-> None]
    ELSE RSILoop(prices, period,
                 [avgGain |-> 0, avgLoss |-> 0,
                  rsiArray |-> [k \in 1..period |-> None]],
                 period, Len(prices)).rsiArray

RSI_PERIOD == 14

\* calculateRSI: null when there is not enough data, else the last RSI value.
calculateRSI(prices) ==
    IF Len(prices) <= RSI_PERIOD THEN None
    ELSE Last(calculateRSIArray(prices, RSI_PERIOD))

(***************************************************************************)
(* cryptoApi.ts: calculateStochRSI.  calculateTechnicalScore reads rawK    *)
(* whenever the result is not null, so the result is modelled by its rawK, *)
(* a rational in [0,100]; k and d are never NaN once rsiValues has         *)
(* period + 5 entries, so the result is null only on the length test.      *)
(***************************************************************************)
Defined(s) == SelectSeq(s, IsSome)

calculateStochRSI(prices) ==
    LET rsiValues == Defined(calculateRSIArray(prices, RSI_PERIOD))
        n == Len(rsiValues)
    IN  IF n < RSI_PERIOD + 5 THEN None
        ELSE LET slice == [k \in 1..RSI_PERIOD |-> Val(rsiValues[n - RSI_PERIOD + k])]
                 min == MinOf(slice)
                 max == MaxOf(slice)
                 current == Val(rsiValues[n])
             IN  Some([rawK |-> IF max = min THEN RInt(50)
                                ELSE RNorm(100 * (current - min), max - min)])

(***************************************************************************)
(* cryptoApi.ts: calculateADX, a volatility-ratio proxy clamped to         *)
(* [10,60]; null when highs has fewer than 2*period entries.               *)
(***************************************************************************)
\* changes = a.map((c, i) => i === 0 ? 0 : |c - a[i-1]|), summed
SumAbsChanges(a) == Sum([k \in 1..Len(a) |-> IF k = 1 THEN 0 ELSE Abs(a[k] - a[k - 1])])

ADX_PERIOD == 14

\* the length test made on closes
calculateADXByCloses(highs, lows, closes) ==
    IF Len(closes) < ADX_PERIOD * 2 \/ Last(closes) = 0 THEN None
    ELSE LET a == Slice(closes, Len(closes) - ADX_PERIOD, Len(closes))
             v == RNorm(SumAbsChanges(a) * 1000, ADX_PERIOD * Last(closes))
         IN  Some(IF RLt(v, RInt(10)) THEN RInt(10)
                  ELSE IF RLt(RInt(60), v) THEN RInt(60) ELSE v)

calculateADX(highs, lows, closes) ==
    IF Len(highs) < ADX_PERIOD * 2 THEN None
    ELSE IF Len(closes) = 0 \/ Last(closes) = 0 THEN None
    ELSE LET a == Slice(closes, IF Len(closes) > ADX_PERIOD
                                THEN Len(closes) - ADX_PERIOD ELSE 0, Len(closes))
             v == RNorm(SumAbsChanges(a) * 1000, ADX_PERIOD * Last(closes))
         IN  Some(IF RLt(v, RInt(10)) THEN RInt(10)
                  ELSE IF RLt(RInt(60), v) THEN RInt(60) ELSE v)


(***************************************************************************)
(* cryptoApi.ts: detectRSIDivergence.  rsiValues is a sequence of optional *)
(* fixed-point RSI values aligned with prices.                             *)
(***************************************************************************)
NoDivergence == [type |-> "NONE", strength |-> "WEAK"]

\* findPeaks over a price array: the 0-based indices i in 5 .. length-3.
IsPeak(arr, i, type) ==
    IF type = "HIGH"
    THEN /\ At(arr, i) > At(arr, i - 1) /\ At(arr, i) > At(arr, i - 2)
         /\ At(arr, i) > At(arr, i + 1) /\ At(arr, i) > At(arr, i + 2)
    ELSE /\ At(arr, i) < At(arr, i - 1) /\ At(arr, i) < At(arr, i - 2)
         /\ At(arr, i) < At(arr, i + 1) /\ At(arr, i) < At(arr, i + 2)

\* the 0-based indices lo .. hi-1, in order
Indices(lo, hi) == [k \in 1..(hi - lo) |-> lo + k - 1]

findPeaks(arr, type) ==
    LET Hit(k) == IsPeak(arr, k, type)
    IN  SelectSeq(Indices(5, Len(arr) - 2), Hit)

detectRSIDivergence(prices, rsiValues) ==
    IF Len(prices) < 20 \/ Len(rsiValues) < 20 THEN NoDivergence
    ELSE
    LET priceHighs == findPeaks(prices, "HIGH")
        priceLows == findPeaks(prices, "LOW")
    IN  IF Len(priceHighs) < 2 \/ Len(priceLows) < 2 THEN NoDivergence
        ELSE
        LET lastHighIdx == priceHighs[Len(priceHighs)]
            prevHighIdx == priceHighs[Len(priceHighs) - 1]
            lastLowIdx == priceLows[Len(priceLows)]
            prevLowIdx == priceLows[Len(priceLows) - 1]
            \* an index beyond rsiValues reads undefined
            R(k) == IF k < Len(rsiValues) THEN At(rsiValues, k) ELSE None
            bearish == /\ Len(prices) - lastHighIdx < 15
                       /\ At(prices, lastHighIdx) > At(prices, prevHighIdx)
                       /\ IsSome(R(lastHighIdx)) /\ IsSome(R(prevHighIdx))
                       /\ Val(R(lastHighIdx)) < Val(R(prevHighIdx))
            bullish == /\ Len(prices) - lastLowIdx < 15
                       /\ At(prices, lastLowIdx) < At(prices, prevLowIdx)
                       /\ IsSome(R(lastLowIdx)) /\ IsSome(R(prevLowIdx))
                       /\ Val(R(lastLowIdx)) > Val(R(prevLowIdx))
        IN  IF bearish THEN [type |-> "BEARISH", strength |-> "STRONG"]
            ELSE IF bullish THEN [type |-> "BULLISH", strength |-> "STRONG"]
            ELSE NoDivergence

(***************************************************************************)
(* cryptoApi.ts: analyzeMarketStructure, the trend it returns.             *)
(* clusterLevels sorts the array it is given in place (levels.sort), and   *)
(* it is given the swing arrays themselves before the trend is decided,    *)
(* so the trend reads highs and lows in ascending order.                   *)
(***************************************************************************)
\* levels.sort((a, b) => a - b)
RECURSIVE SortAsc(_)
SortAsc(s) ==
    IF Len(s) <= 1 THEN s
    ELSE LET pivot == s[(Len(s) + 1) \div 2]
             Less(x) == x < pivot
             Same(x) == x = pivot
             More(x) == x > pivot
         IN  SortAsc(SelectSeq(s, Less)) \o SelectSeq(s, Same) \o SortAsc(SelectSeq(s, More))

\* the loop of swing detection, i = 2 .. length-1; which is "HIGH" or "LOW"
Swings(prices, which) ==
    LET Hit(k) == LET a == At(prices, k - 2)
                      b == At(prices, k - 1)
                      c == At(prices, k)
                  IN  IF which = "HIGH" THEN b > a /\ b > c ELSE b < a /\ b < c
        at == SelectSeq(Indices(2, Len(prices)), Hit)
    IN  [k \in 1..Len(at) |-> At(prices, at[k] - 1)]

SwingHighs(prices) == Swings(prices, "HIGH")
SwingLows(prices) == Swings(prices, "LOW")

\* the arrays as left by clusterLevels(highs) and clusterLevels(lows)
HighsAfterCluster(prices) == SortAsc(SwingHighs(prices))
LowsAfterCluster(prices) == SortAsc(SwingLows(prices))

\* lines 769-776: the comparison of the last two entries of each array
BaseTrend(highs, lows) ==
    LET lastHigh == highs[Len(highs)]
        prevHigh == highs[Len(highs) - 1]
        lastLow == lows[Len(lows)]
        prevLow == lows[Len(lows) - 1]
    IN  IF lastHigh > prevHigh /\ lastLow > prevLow THEN "UPTREND"
        ELSE IF lastHigh < prevHigh /\ lastLow < prevLow THEN "DOWNTREND"
        ELSE "RANGING"

\* lines 780-786: the two overrides, one after the other
BosOverride(base, lastPrice, lastHigh, lastLow) ==
    LET bos1 == IF base = "DOWNTREND" /\ lastPrice > lastHigh THEN "UPTREND" ELSE base
    IN  IF bos1 = "UPTREND" /\ lastPrice < lastLow THEN "DOWNTREND" ELSE bos1

StructureTrend(prices) ==
    IF Len(prices) < 10 THEN "RANGING"
    ELSE
    LET highs == HighsAfterCluster(prices)
        lows == LowsAfterCluster(prices)
    IN  IF Len(highs) >= 2 /\ Len(lows) >= 2
        THEN BosOverride(BaseTrend(highs, lows), Last(prices), Last(highs), Last(lows))
        ELSE LET start == prices[1]
                 end == Last(prices)
             IN  IF 100 * end > 105 * start THEN "UPTREND"
                 ELSE IF 100 * end < 95 * start THEN "DOWNTREND"
                 ELSE "RANGING"

\* lines 742-760 on the sorted array: a level joins the current cluster when
\* it is at most 2% above the level before it; each cluster is pushed as its
\* sum over its count
RECURSIVE ClusterFrom(_, _, _, _, _)
ClusterFrom(levels, i, currentClusterSum, currentClusterCount, clusters) ==
    IF i > Len(levels)
    THEN Append(clusters, RNorm(currentClusterSum, currentClusterCount))
    ELSE IF 100 * levels[i] <= 102 * levels[i - 1]
    THEN ClusterFrom(levels, i + 1, currentClusterSum + levels[i],
                     currentClusterCount + 1, clusters)
    ELSE ClusterFrom(levels, i + 1, levels[i], 1,
                     Append(clusters, RNorm(currentClusterSum, currentClusterCount)))

clusterLevels(levels) ==
    IF Len(levels) = 0 THEN <<>>
    ELSE ClusterFrom(SortAsc(levels), 2, SortAsc(levels)[1], 1, <<>>)

\* resistances = clusterLevels(highs).slice(-3), supports =
\* clusterLevels(lows).slice(0, 3)
analyzeMarketStructure(prices) ==
    LET high == clusterLevels(SwingHighs(prices))
        low == clusterLevels(SwingLows(prices))
    IN  [trend |-> StructureTrend(prices),
         supports |-> IF Len(prices) < 10 THEN <<>>
                      ELSE Slice(low, 0, 3),
         resistances |-> IF Len(prices) < 10 THEN <<>>
                         ELSE Slice(high, IF Len(high) > 3 THEN Len(high) - 3 ELSE 0,
                                    Len(high))]

(***************************************************************************)
(* cryptoApi.ts: calculateTechnicalScore.  rsi is an optional fixed-point  *)
(* value, adx an optional rational, stochRsi an optional [rawK].           *)
(***************************************************************************)
\* the sum returned as it is
ClampNone(x, lo, hi) == x

Clamp(x, lo, hi) == IF x < lo THEN lo ELSE IF x > hi THEN hi ELSE x

calculateTechnicalScore(prices, rsi, adx, stochRsi, trend, divergence) ==
    LET ema9 == calculateEMA(prices, 9)
        lastPrice == Last(prices)
        lastEma == IF Len(ema9) = 0 THEN None ELSE Last(ema9)
        momentum == IF IsSome(lastEma) /\ Val(lastEma) /= 0
                    THEN (IF lastPrice * FP > Val(lastEma) THEN 12 ELSE -12)
                    ELSE 0
        trendPart == IF trend = "UPTREND" THEN 10
                     ELSE IF trend = "DOWNTREND" THEN -10 ELSE 0
        rsiPart == IF ~IsSome(rsi) THEN 0
                   ELSE IF Val(rsi) < 30 * FP THEN 10
                   ELSE IF Val(rsi) > 70 * FP THEN -10
                   ELSE IF Val(rsi) > 50 * FP /\ trend = "UPTREND" THEN 5
                   ELSE 0
        adxPart == IF IsSome(adx) /\ RLt(RInt(25), Val(adx))
                   THEN (IF trend = "UPTREND" THEN 10
                         ELSE IF trend = "DOWNTREND" THEN -10 ELSE 0)
                   ELSE 0
        stochPart == IF ~IsSome(stochRsi) THEN 0
                     ELSE IF RLt(Val(stochRsi).rawK, RInt(20)) THEN 10
                     ELSE IF RLt(RInt(80), Val(stochRsi).rawK) THEN -10
                     ELSE 0
        divPart == IF divergence.type = "BULLISH" THEN 15
                   ELSE IF divergence.type = "BEARISH" THEN -15 ELSE 0
    IN  Clamp(50 + momentum + trendPart + rsiPart + adxPart + stochPart + divPart, 0, 100)


(***************************************************************************)
(* BacktestService: runBacktest.                                           *)
(*                                                                         *)
(* A candle is [time, price, high, low]; high and low are optional         *)
(* (ChartPoint.high?, ChartPoint.low?).  time is the candle's index: the   *)
(* series has strictly increasing times.                                   *)
(***************************************************************************)
VARIABLES
    strategy,        \* argument: "TREND_FOLLOWING" | "MEAN_REVERSION" | "SCORE_BASED"
    initialCapital,  \* argument
    history,         \* argument: the candle series, as far as the run has read it
    pc,              \* "call" | "loop" | "done"
    i,               \* the loop index
    position,        \* None or Some([type, entry, time, sl, tp])
    equity,
    maxEquity,
    maxDrawdown,
    trades,          \* TradeLog[]
    equityCurve,     \* {time, equity}[]
    result,          \* None, or Some(the returned BacktestResult)
    run,             \* 1, or 2 for a second call on the same arguments
    first,           \* None, or Some(the first call's result and series)
    trainSize,       \* runWalkForwardAnalysis: argument
    testSize,        \* argument
    wfPc,            \* "idle" | "loop" | "stats" | "done"
    wfI,             \* the window start, the loop variable i
    trainWindow,     \* the slices of the latest iteration
    testWindow,
    periodResults,   \* the local results
    wfResult,        \* None, or Some(the returned WalkForwardResult)
    fnPc,            \* a call of one of the other functions: "idle" | its position
    fnArgs,          \* its arguments
    fnLocals,        \* its locals
    fnResult,        \* None, or Some(what it returned)
    predictions,     \* LearningLog: the component's state
    localStorage,    \* the list stored under 'crypto_predictions'
    loading,         \* the component's loading flag
    closure          \* None, or Some(the predictions a running checkPredictions holds)

btVars == <<strategy, initialCapital, history, pc, i, position, equity, maxEquity,
            maxDrawdown, trades, equityCurve, result, run, first>>

wfVars == <<trainSize, testSize, wfPc, wfI, trainWindow, testWindow, periodResults,
            wfResult>>

fnVars == <<fnPc, fnArgs, fnLocals, fnResult>>

logVars == <<predictions, localStorage, loading, closure>>

vars == <<btVars, wfVars, fnVars, logVars>>

Strategies == {"TREND_FOLLOWING", "MEAN_REVERSION", "SCORE_BASED"}

\* if (history.length < 50) return the zeroed result
MIN_CANDLES == 50
\* for (let i = 50; ...): the candles before it only feed the indicators
LOOP_START == 50

ZeroResult ==
    [totalTrades |-> 0, wins |-> 0, losses |-> 0, winRate |-> RZero,
     profitFactor |-> RZero, maxDrawdown |-> RZero, equityCurve |-> <<>>,
     trades |-> <<>>]

Prices(hist) == [k \in 1..Len(hist) |-> hist[k].price]

\* const H = candle.high !== undefined ? candle.high : currentPrice (and L)
CandleHigh(candle) == IF IsSome(candle.high) THEN Val(candle.high) ELSE candle.price
CandleLow(candle) == IF IsSome(candle.low) THEN Val(candle.low) ELSE candle.price

(***************************************************************************)
(* Check Stops/Targets: "SL", "TP" or "NONE".  The stop is tested first.   *)
(***************************************************************************)
\* the target tested before the stop
ExitCheckTargetFirst(pos, H, L) ==
    IF pos.type = "LONG"
    THEN IF RLe(pos.tp, RInt(H)) THEN "TP"
         ELSE IF RLe(RInt(L), pos.sl) THEN "SL"
         ELSE "NONE"
    ELSE IF RLe(RInt(L), pos.tp) THEN "TP"
         ELSE IF RLe(pos.sl, RInt(H)) THEN "SL"
         ELSE "NONE"

ExitCheck(pos, H, L) ==
    IF pos.type = "LONG"
    THEN IF RLe(RInt(L), pos.sl) THEN "SL"
         ELSE IF RLe(pos.tp, RInt(H)) THEN "TP"
         ELSE "NONE"
    ELSE IF RLe(pos.sl, RInt(H)) THEN "SL"
         ELSE IF RLe(RInt(L), pos.tp) THEN "TP"
         ELSE "NONE"

\* pnl in percent of the entry price, as set by the branch taken
PnlPercent(pos, kind) ==
    LET entry == RInt(pos.entry)
        level == IF kind = "SL" THEN pos.sl ELSE pos.tp
        diff == IF pos.type = "LONG" THEN RSub(level, entry) ELSE RSub(entry, level)
    IN  RMul(RDiv(diff, entry), RInt(100))

\* const riskPerTrade = equity * 0.02
RiskPerTrade(eq) == RMul(eq, <<2, 100>>)

\* rr = rewardDistance / (riskDistance || 1)
RiskReward(pos) ==
    LET riskDistance == RAbs(RSub(RInt(pos.entry), pos.sl))
        rewardDistance == RAbs(RSub(pos.tp, RInt(pos.entry)))
    IN  RDiv(rewardDistance, IF riskDistance = RZero THEN RInt(1) ELSE riskDistance)

\* the close compounding the percent move of the price instead
TradePnlByPercent(eq, pos, pnl) == RMul(eq, RDiv(pnl, RInt(100)))

\* the signed amount the close adds to equity
TradePnl(eq, pos, pnl) ==
    IF RLt(RZero, pnl) THEN RMul(RiskPerTrade(eq), RiskReward(pos))
    ELSE RNeg(RiskPerTrade(eq))

EquityAfterClose(eq, pos, pnl) == RAdd(eq, TradePnl(eq, pos, pnl))

\* the peak left at its first value
PeakNeverRaised(peak, eq) == peak

\* Drawdown calc
PeakAfterClose(peak, eq) == IF RLt(peak, eq) THEN eq ELSE peak

DrawdownAfterClose(mdd, peak, eq) ==
    LET dd == RMul(RDiv(RSub(peak, eq), peak), RInt(100))
    IN  IF RLt(mdd, dd) THEN dd ELSE mdd

(***************************************************************************)
(* The locals of one call, st = [position, equity, maxEquity, maxDrawdown, *)
(* trades, equityCurve].  UpdatePosition is the "if (position)" block of   *)
(* the loop body; continued says whether it ended in "continue".           *)
(***************************************************************************)
\* if (closed): the bookkeeping of a close, lines 114-145
ClosePosition(st, candle, kind) ==
    LET pos == Val(st.position)
        pnl == PnlPercent(pos, kind)
        eq == EquityAfterClose(st.equity, pos, pnl)
        peak == PeakAfterClose(st.maxEquity, eq)
        trade == [entryTime |-> pos.time, exitTime |-> candle.time,
                  type |-> pos.type, entryPrice |-> pos.entry,
                  exitPrice |-> IF RLt(RZero, pnl) THEN pos.tp ELSE pos.sl,
                  pnl |-> TradePnl(st.equity, pos, pnl),
                  pnlPercent |-> pnl,
                  reason |-> IF kind = "SL" THEN "Stop Loss" ELSE "Take Profit"]
    IN  [position |-> None,
         equity |-> eq,
         maxEquity |-> peak,
         maxDrawdown |-> DrawdownAfterClose(st.maxDrawdown, peak, eq),
         trades |-> Append(st.trades, trade),
         equityCurve |-> Append(st.equityCurve, [time |-> candle.time, equity |-> eq])]

\* a close that falls through to the entry logic of the same candle
UpdatePositionFallThrough(st, candle) ==
    LET kind == ExitCheck(Val(st.position), CandleHigh(candle), CandleLow(candle))
    IN  IF kind = "NONE" THEN [st |-> st, continued |-> FALSE]
        ELSE [st |-> ClosePosition(st, candle, kind), continued |-> FALSE]

UpdatePosition(st, candle) ==
    LET kind == ExitCheck(Val(st.position), CandleHigh(candle), CandleLow(candle))
    IN  IF kind = "NONE" THEN [st |-> st, continued |-> FALSE]
        ELSE [st |-> ClosePosition(st, candle, kind), continued |-> TRUE]

\* "rsi && rsi < limit": null and 0 are falsy
RsiBelow(rsi, limit) == IsSome(rsi) /\ Val(rsi) /= 0 /\ Val(rsi) < limit * FP

ScoreOf(lookbackPrices) ==
    calculateTechnicalScore(lookbackPrices,
                            calculateRSI(lookbackPrices),
                            calculateADX(<<>>, <<>>, lookbackPrices),
                            calculateStochRSI(lookbackPrices),
                            analyzeMarketStructure(lookbackPrices).trend,
                            detectRSIDivergence(lookbackPrices, <<>>))

\* Logic for Entry: None, or Some([slPct, tpPct]) (the stop and the target in
\* percent of the current price)
EntrySignal(strat, lookbackPrices) ==
    IF strat = "SCORE_BASED"
    THEN IF ScoreOf(lookbackPrices) > 75 THEN Some([slPct |-> 98, tpPct |-> 104])
         ELSE None
    ELSE IF strat = "TREND_FOLLOWING"
    THEN IF /\ analyzeMarketStructure(lookbackPrices).trend = "UPTREND"
            /\ RsiBelow(calculateRSI(lookbackPrices), 40)
         THEN Some([slPct |-> 98, tpPct |-> 104])
         ELSE None
    ELSE IF strat = "MEAN_REVERSION"
    THEN IF /\ analyzeMarketStructure(lookbackPrices).trend = "RANGING"
            /\ RsiBelow(calculateRSI(lookbackPrices), 30)
         THEN Some([slPct |-> 97, tpPct |-> 103])
         ELSE None
    ELSE None

\* position = { type: 'LONG', entry: currentPrice, time: candle.time, sl, tp }
OpenLong(st, candle, sig) ==
    IF IsSome(sig)
    THEN [st EXCEPT !.position =
             Some([type |-> "LONG", entry |-> candle.price, time |-> candle.time,
                   sl |-> RNorm(candle.price * Val(sig).slPct, 100),
                   tp |-> RNorm(candle.price * Val(sig).tpPct, 100)])]
    ELSE st

\* if (!position) { const lookbackPrices = prices.slice(0, i + 1); ... }
EnterPosition(st, strat, hist, idx) ==
    OpenLong(st, At(hist, idx), EntrySignal(strat, Slice(Prices(hist), 0, idx + 1)))

\* the loop body after the "if (position)" block
AfterUpdate(upd, strat, hist, idx) ==
    IF upd.continued THEN upd.st
    ELSE IF ~IsSome(upd.st.position) THEN EnterPosition(upd.st, strat, hist, idx)
    ELSE upd.st

\* one iteration of the loop, at index idx
LoopBody(st, strat, hist, idx) ==
    AfterUpdate(IF IsSome(st.position) THEN UpdatePosition(st, At(hist, idx))
                ELSE [st |-> st, continued |-> FALSE],
                strat, hist, idx)

\* the trade log kept from the previous call
InitialLocalsKeepingTrades(hist, capital) ==
    [position |-> None, equity |-> capital, maxEquity |-> capital,
     maxDrawdown |-> RZero, trades |-> trades,
     equityCurve |-> <<[time |-> hist[1].time, equity |-> capital]>>]

InitialLocals(hist, capital) ==
    [position |-> None, equity |-> capital, maxEquity |-> capital,
     maxDrawdown |-> RZero, trades |-> <<>>,
     equityCurve |-> <<[time |-> hist[1].time, equity |-> capital]>>]

\* the statistics after the loop
IsWin(t) == RLt(RZero, t.pnl)
IsLoss(t) == RLt(t.pnl, RZero)
RECURSIVE SumPnl(_)
SumPnl(ts) == IF Len(ts) = 0 THEN RZero ELSE RAdd(ts[1].pnl, SumPnl(Tail(ts)))

GrossProfit(ts) == SumPnl(SelectSeq(ts, IsWin))
GrossLoss(ts) == RAbs(SumPnl(SelectSeq(ts, IsLoss)))

\* no gross loss reported as a factor of 0
ProfitFactorZeroOnNoLoss(ts) ==
    IF GrossLoss(ts) = RZero THEN RZero
    ELSE RDiv(GrossProfit(ts), GrossLoss(ts))

ProfitFactor(ts) ==
    IF GrossLoss(ts) = RZero THEN GrossProfit(ts)
    ELSE RDiv(GrossProfit(ts), GrossLoss(ts))

WinRate(wins, totalTrades) ==
    IF totalTrades > 0 THEN RMul(RNorm(wins, totalTrades), RInt(100)) ELSE RZero

\* the statistics with a position left open booked as a trade at its entry
ResultOfClosingOpen(st) ==
    LET open == IF IsSome(st.position)
                THEN <<[entryTime |-> Val(st.position).time,
                        exitTime |-> Val(st.position).time,
                        type |-> Val(st.position).type,
                        entryPrice |-> Val(st.position).entry,
                        exitPrice |-> RInt(Val(st.position).entry),
                        pnl |-> RZero, pnlPercent |-> RZero, reason |-> "End"]>>
                ELSE <<>>
        all == st.trades \o open
        wins == Len(SelectSeq(all, IsWin))
    IN  [totalTrades |-> Len(all), wins |-> wins, losses |-> Len(all) - wins,
         winRate |-> WinRate(wins, Len(all)),
         profitFactor |-> ProfitFactor(all),
         maxDrawdown |-> st.maxDrawdown,
         equityCurve |-> st.equityCurve,
         trades |-> all]

ResultOf(st) ==
    LET wins == Len(SelectSeq(st.trades, IsWin))
        losses == Len(SelectSeq(st.trades, LAMBDA t : ~IsWin(t)))
        totalTrades == Len(st.trades)
    IN  [totalTrades |-> totalTrades, wins |-> wins, losses |-> losses,
         winRate |-> WinRate(wins, totalTrades),
         profitFactor |-> ProfitFactor(st.trades),
         maxDrawdown |-> st.maxDrawdown,
         equityCurve |-> st.equityCurve,
         trades |-> st.trades]


(***************************************************************************)
(* The inputs.  A series starts with one of a few 50-candle shapes (the    *)
(* loop reads these candles' prices only, through the indicators) and      *)
(* goes on with up to MaxTail candles drawn one per iteration: the loop    *)
(* reads candle i at iteration i and never looks ahead, so drawing the     *)
(* candle there is drawing the series beforehand.                          *)
(***************************************************************************)
MaxTail == 4

Shapes == {"DECLINE", "RANGE", "PULLBACK", "ZIGZAG"}

\* the price of candle k (0-based) of a shape
ShapePrice(shape, k) ==
    CASE shape = "DECLINE" -> 1000 - (k \div 13)
      [] shape = "RANGE" -> 1000 - (k \div 2) + (IF k >= 20 THEN 3 ELSE 0)
      [] shape = "PULLBACK" -> IF k < 13 THEN 1000 + 10 * k ELSE 1120 - (k - 12)
      [] shape = "ZIGZAG" -> 1000 + 5 * (k \div 2) + (IF k % 2 = 0 THEN 15 ELSE 0)
      [] shape = "WAVE" -> 1000 + 4 * Abs(((k + 20) % 40) - 20)

Candle(t, p, h, l) == [time |-> t, price |-> p, high |-> h, low |-> l]

ShapeSeries(shape, n) == [k \in 1..n |-> Candle(k - 1, ShapePrice(shape, k - 1), None, None)]

\* the candles that may follow a series
NextCandles(hist) ==
    LET t == Len(hist)
        p == Last(hist).price
    IN  { Candle(t, p - 1, None, None),                  \* drifting down, no wicks
          Candle(t, p, Some(p + 60), Some(p - 60)),      \* both wicks
          Candle(t, p, Some(p + 60), None),              \* upper wick
          Candle(t, p, None, Some(p - 60)) }             \* lower wick

Capitals == {1000}

\* no walk-forward analysis is running
WFIdle ==
    /\ trainSize = 0
    /\ testSize = 0
    /\ wfPc = "idle"
    /\ wfI = 0
    /\ trainWindow = <<>>
    /\ testWindow = <<>>
    /\ periodResults = <<>>
    /\ wfResult = None

\* no other function is being called
FnIdle ==
    /\ fnPc = "idle"
    /\ fnArgs = <<>>
    /\ fnLocals = <<>>
    /\ fnResult = None

\* no LearningLog is mounted
LogIdle ==
    /\ predictions = <<>>
    /\ localStorage = <<>>
    /\ loading = FALSE
    /\ closure = None

\* no backtest is running
BTIdle ==
    /\ initialCapital = RZero
    /\ pc = "idle"
    /\ i = 0
    /\ position = None
    /\ equity = RZero
    /\ maxEquity = RZero
    /\ maxDrawdown = RZero
    /\ trades = <<>>
    /\ equityCurve = <<>>
    /\ result = None
    /\ run = 1
    /\ first = None

Locals == [position |-> position, equity |-> equity, maxEquity |-> maxEquity,
           maxDrawdown |-> maxDrawdown, trades |-> trades, equityCurve |-> equityCurve]

SetLocals(st) ==
    /\ position' = st.position
    /\ equity' = st.equity
    /\ maxEquity' = st.maxEquity
    /\ maxDrawdown' = st.maxDrawdown
    /\ trades' = st.trades
    /\ equityCurve' = st.equityCurve

Init ==
    /\ strategy \in Strategies
    /\ initialCapital \in {RInt(c) : c \in Capitals}
    /\ history \in {ShapeSeries(sh, MIN_CANDLES) : sh \in Shapes}
                   \cup {ShapeSeries("DECLINE", MIN_CANDLES - 1), <<>>}
    /\ pc = "call"
    /\ i = 0
    /\ position = None
    /\ equity = RZero
    /\ maxEquity = RZero
    /\ maxDrawdown = RZero
    /\ trades = <<>>
    /\ equityCurve = <<>>
    /\ result = None
    /\ run = 1
    /\ first = None
    /\ WFIdle
    /\ FnIdle
    /\ LogIdle

\* lines 46-57
ReturnTooShort ==
    /\ pc = "call"
    /\ Len(history) < MIN_CANDLES
    /\ result' = Some(ZeroResult)
    /\ pc' = "done"
    /\ UNCHANGED <<strategy, initialCapital, history, i, position, equity, maxEquity,
                   maxDrawdown, trades, equityCurve, run, first>>
    /\ UNCHANGED wfVars
    /\ UNCHANGED fnVars
    /\ UNCHANGED logVars

\* lines 59-76
Begin ==
    /\ pc = "call"
    /\ Len(history) >= MIN_CANDLES
    /\ SetLocals(InitialLocals(history, initialCapital))
    /\ i' = LOOP_START
    /\ pc' = "loop"
    /\ UNCHANGED <<strategy, initialCapital, history, result, run, first>>
    /\ UNCHANGED wfVars
    /\ UNCHANGED fnVars
    /\ UNCHANGED logVars

\* the series as the iteration at index i finds it
SeriesAt ==
    IF i < Len(history) THEN {history}
    ELSE IF run = 1 /\ Len(history) < LOOP_START + MaxTail
    THEN {Append(history, c) : c \in NextCandles(history)}
    ELSE {}

\* lines 76-201, one iteration
Iterate ==
    /\ pc = "loop"
    /\ \E h \in SeriesAt :
          /\ history' = h
          /\ SetLocals(LoopBody(Locals, strategy, h, i))
    /\ i' = i + 1
    /\ UNCHANGED <<strategy, initialCapital, pc, result, run, first>>
    /\ UNCHANGED wfVars
    /\ UNCHANGED fnVars
    /\ UNCHANGED logVars

\* lines 203-221: the loop has ended, i = history.length
Return ==
    /\ pc = "loop"
    /\ i >= Len(history)
    /\ result' = Some(ResultOf(Locals))
    /\ pc' = "done"
    /\ UNCHANGED <<strategy, initialCapital, history, i, position, equity, maxEquity,
                   maxDrawdown, trades, equityCurve, run, first>>
    /\ UNCHANGED wfVars
    /\ UNCHANGED fnVars
    /\ UNCHANGED logVars

Next == ReturnTooShort \/ Begin \/ Iterate \/ Return

Spec == Init /\ [][Next]_vars

(***************************************************************************)
(* A second call of runBacktest with the arguments of the first: the       *)
(* caller keeps the first result and the series it passed.  The locals of  *)
(* the first call are left as they were; the second call sets its own.     *)
(***************************************************************************)
Rerun ==
    /\ pc = "done"
    /\ run = 1
    /\ first' = Some([result |-> Val(result), history |-> history])
    /\ run' = 2
    /\ pc' = "call"
    /\ result' = None
    /\ UNCHANGED <<strategy, initialCapital, history, i, position, equity, maxEquity,
                   maxDrawdown, trades, equityCurve>>
    /\ UNCHANGED wfVars
    /\ UNCHANGED fnVars
    /\ UNCHANGED logVars

NextTwice == ReturnTooShort \/ Begin \/ Iterate \/ Return \/ Rerun

SpecTwice == Init /\ [][NextTwice]_vars

(***************************************************************************)
(* runBacktest as the function runWalkForwardAnalysis calls: the guard,    *)
(* the loop over i = 50 .. history.length - 1 and the statistics.          *)
(***************************************************************************)
RECURSIVE BacktestLoop(_, _, _, _, _)
BacktestLoop(st, strat, hist, lo, hi) ==
    IF hi <= lo THEN st
    ELSE IF hi - lo = 1 THEN LoopBody(st, strat, hist, lo)
    ELSE LET mid == (lo + hi) \div 2
             left == BacktestLoop(st, strat, hist, lo, mid)
         IN  IF Forced(left) THEN BacktestLoop(left, strat, hist, mid, hi) ELSE left

runBacktest(strat, hist, capital) ==
    IF Len(hist) < MIN_CANDLES THEN ZeroResult
    ELSE ResultOf(BacktestLoop(InitialLocals(hist, capital), strat, hist,
                               LOOP_START, Len(hist)))

(***************************************************************************)
(* runWalkForwardAnalysis(strategy, history, trainSize, testSize).         *)
(***************************************************************************)
\* a step of one candle
WFStepOne(test) == 1

\* let step = testSize
WFStep(test) == test

\* the loop condition: i < history.length - (trainSize + testSize)
WFContinues(n, train, test, idx) == idx < n - (train + test)

\* trainResult.equityCurve[trainResult.equityCurve.length - 1]?.equity || 1000
DEFAULT_CAPITAL == 1000

\* no fallback: an empty curve gives a capital of 0
TestCapitalNoFallback(trainResult) ==
    IF Len(trainResult.equityCurve) > 0 THEN Last(trainResult.equityCurve).equity
    ELSE RZero

TestCapital(trainResult) ==
    IF Len(trainResult.equityCurve) > 0 /\ Last(trainResult.equityCurve).equity /= RZero
    THEN Last(trainResult.equityCurve).equity
    ELSE RInt(DEFAULT_CAPITAL)

\* Math.max(0, 100 - Math.abs(trainWR - testWR))
PeriodStability(r) ==
    LET diff == RAbs(RSub(r.train.winRate, r.test.winRate))
    IN  IF RLt(RInt(100), diff) THEN RZero ELSE RSub(RInt(100), diff)

RECURSIVE StabilitySum(_)
StabilitySum(rs) ==
    IF Len(rs) = 0 THEN RZero ELSE RAdd(PeriodStability(rs[1]), StabilitySum(Tail(rs)))

RECURSIVE TotalWinRate(_)
TotalWinRate(rs) ==
    IF Len(rs) = 0 THEN RZero ELSE RAdd(rs[1].test.winRate, TotalWinRate(Tail(rs)))

\* the sums returned undivided
WalkForwardResultSummed(rs) ==
    [periodResults |-> rs,
     overallStability |-> StabilitySum(rs),
     averageWinRate |-> TotalWinRate(rs)]

WalkForwardResultOf(rs) ==
    [periodResults |-> rs,
     overallStability |-> IF Len(rs) > 0 THEN RDiv(StabilitySum(rs), RInt(Len(rs)))
                          ELSE RZero,
     averageWinRate |-> IF Len(rs) > 0 THEN RDiv(TotalWinRate(rs), RInt(Len(rs)))
                        ELSE RZero]

\* the bounds of the walk-forward inputs
MaxCandles == 10
MaxTrain == 3
MaxTest == 3

\* trainSize: number = 200, testSize: number = 50
DEFAULT_TRAIN == 200
DEFAULT_TEST == 50

WFStrategies == {"TREND_FOLLOWING", "MEAN_REVERSION"}

\* the calls: short series with small windows, the default windows on
\* series of one and of two train + test lengths, and windows long enough
\* for the train and the test runs to trade
WFInputs ==
    [n : 0..MaxCandles, train : 1..MaxTrain, test : 1..MaxTest]
    \cup {[n |-> k * (DEFAULT_TRAIN + DEFAULT_TEST),
            train |-> DEFAULT_TRAIN, test |-> DEFAULT_TEST] : k \in 1..2}
    \cup {[n |-> DEFAULT_TRAIN + DEFAULT_TEST, train |-> 80, test |-> 60],
          [n |-> DEFAULT_TRAIN + DEFAULT_TEST, train |-> 70, test |-> 70],
          [n |-> 3 * MIN_CANDLES, train |-> MIN_CANDLES - 1, test |-> MIN_CANDLES]}

InitWF ==
    /\ strategy \in WFStrategies
    /\ \E in \in WFInputs :
          /\ history = ShapeSeries("WAVE", in.n)
          /\ trainSize = in.train
          /\ testSize = in.test
    /\ wfPc = "loop"
    /\ wfI = 0
    /\ trainWindow = <<>>
    /\ testWindow = <<>>
    /\ periodResults = <<>>
    /\ wfResult = None
    /\ initialCapital = RInt(DEFAULT_CAPITAL)
    /\ pc = "idle"
    /\ i = 0
    /\ position = None
    /\ equity = RZero
    /\ maxEquity = RZero
    /\ maxDrawdown = RZero
    /\ trades = <<>>
    /\ equityCurve = <<>>
    /\ result = None
    /\ run = 1
    /\ first = None
    /\ FnIdle
    /\ LogIdle

\* history.slice(i, i + trainSize)
TrainWindowAt(hist, train, idx) == Slice(hist, idx, idx + train)

\* history.slice(i + trainSize, i + trainSize + testSize)
TestWindowAt(hist, train, test, idx) == Slice(hist, idx + train, idx + train + test)

\* the train run reported as the test run
PeriodResultTrainTwice(idx, strat, testW, trainResult) ==
    [windowIndex |-> idx, train |-> trainResult, test |-> trainResult]

\* the entry pushed for the window at idx, the test run starting from the
\* capital the train run ended with
PeriodResult(idx, strat, testW, trainResult) ==
    [windowIndex |-> idx,
     train |-> trainResult,
     test |-> runBacktest(strat, testW, TestCapital(trainResult))]

\* lines 305-321: one iteration of the sliding window
WFIterate ==
    /\ wfPc = "loop"
    /\ WFContinues(Len(history), trainSize, testSize, wfI)
    /\ trainWindow' = TrainWindowAt(history, trainSize, wfI)
    /\ testWindow' = TestWindowAt(history, trainSize, testSize, wfI)
    /\ IF Len(testWindow') < testSize
       THEN /\ wfPc' = "stats"
            /\ UNCHANGED <<wfI, periodResults>>
       ELSE /\ periodResults' =
                 Append(periodResults,
                        PeriodResult(wfI, strategy, testWindow',
                                     runBacktest(strategy, trainWindow',
                                                 RInt(DEFAULT_CAPITAL))))
            /\ wfI' = wfI + WFStep(testSize)
            /\ wfPc' = "loop"
    /\ UNCHANGED <<trainSize, testSize, wfResult>>
    /\ UNCHANGED btVars
    /\ UNCHANGED fnVars
    /\ UNCHANGED logVars

\* the loop condition fails
WFExit ==
    /\ wfPc = "loop"
    /\ ~WFContinues(Len(history), trainSize, testSize, wfI)
    /\ wfPc' = "stats"
    /\ UNCHANGED <<trainSize, testSize, wfI, trainWindow, testWindow, periodResults,
                   wfResult>>
    /\ UNCHANGED btVars
    /\ UNCHANGED fnVars
    /\ UNCHANGED logVars

\* lines 324-344
WFReturn ==
    /\ wfPc = "stats"
    /\ wfResult' = Some(WalkForwardResultOf(periodResults))
    /\ wfPc' = "done"
    /\ UNCHANGED <<trainSize, testSize, wfI, trainWindow, testWindow, periodResults>>
    /\ UNCHANGED btVars
    /\ UNCHANGED fnVars
    /\ UNCHANGED logVars

NextWF == WFIterate \/ WFExit \/ WFReturn

SpecWF == InitWF /\ [][NextWF]_vars

(***************************************************************************)
(* Properties of runBacktest.                                              *)
(***************************************************************************)
\* the candle's extremes reach both the stop and the target of pos
BothTouched(pos, candle) ==
    /\ RLe(RInt(CandleLow(candle)), pos.sl)
    /\ RLe(pos.tp, RInt(CandleHigh(candle)))

\* C1: an open LONG position meeting a candle whose low is at or below its
\* stop and whose high is at or above its target is closed on that candle at
\* the stop, as a loss with reason "Stop Loss", never as a take-profit.
C1_StopLossFirst ==
    [][(/\ pc = "loop" /\ pc' = "loop"
        /\ IsSome(position)
        /\ Val(position).type = "LONG"
        /\ BothTouched(Val(position), At(history', i)))
       => (/\ position' = None
           /\ Len(trades') = Len(trades) + 1
           /\ Last(trades').exitTime = i
           /\ Last(trades').reason = "Stop Loss"
           /\ Last(trades').exitPrice = Val(position).sl
           /\ RLt(Last(trades').pnl, RZero)
           /\ RLt(Last(trades').pnlPercent, RZero)
           /\ RLt(equity', equity))]_btVars

\* a trade was closed at its stop on a candle whose high also reached the
\* target (at most 4% above the entry)
C1_Witness ==
    /\ Len(trades) >= 1
    /\ LET t == Last(trades)
           c == At(history, t.exitTime)
       IN  /\ t.reason = "Stop Loss"
           /\ IsSome(c.high) /\ IsSome(c.low)
           /\ 100 * Val(c.high) >= 104 * t.entryPrice
           /\ RLe(RInt(Val(c.low)), t.exitPrice)

\* C2: a position is opened only in a candle step that started flat and
\* closed nothing: at most one position is open, and the earliest re-entry
\* after a close is the following candle.
C2_SinglePosition ==
    [][(IsSome(position') /\ position' /= position)
       => (/\ position = None
           /\ trades' = trades
           /\ Val(position').time = i
           /\ \A k \in 1..Len(trades) : trades[k].exitTime < i)]_btVars

\* a position was opened on the candle right after a close
C2_Witness ==
    /\ IsSome(position)
    /\ Len(trades) >= 1
    /\ Val(position).time = Last(trades).exitTime + 1

\* the entry rule of a strategy, as stated: a comparison of the RSI value
RuleHolds(strat, lookbackPrices) ==
    LET rsi == calculateRSI(lookbackPrices)
        trend == analyzeMarketStructure(lookbackPrices).trend
    IN  CASE strat = "TREND_FOLLOWING" ->
               trend = "UPTREND" /\ IsSome(rsi) /\ Val(rsi) < 40 * FP
          [] strat = "MEAN_REVERSION" ->
               trend = "RANGING" /\ IsSome(rsi) /\ Val(rsi) < 30 * FP
          [] strat = "SCORE_BASED" -> ScoreOf(lookbackPrices) > 75

\* C3: on every candle i >= 50 at which the run is flat, a LONG is entered
\* exactly when the strategy's rule holds (UPTREND and RSI < 40; RANGING and
\* RSI < 30, an RSI of 0 included; score > 75).
C3_EntryRule ==
    [][(pc = "loop" /\ pc' = "loop" /\ position = None)
       => (/\ i >= 50
           /\ (IsSome(position')
                  <=> RuleHolds(strategy, Slice(Prices(history'), 0, i + 1)))
           /\ (IsSome(position') => /\ Val(position').type = "LONG"
                                    /\ Val(position').entry = At(history', i).price
                                    /\ Val(position').time = i))]_btVars

\* C4: a close changes equity by the fixed-fractional rule, with risk = 2% of
\* the equity held just before the close: a stop-loss close leaves
\* equity - risk, a take-profit close equity + risk * RR, where
\* RR = |tp - entry| / |entry - sl| (2 for TREND_FOLLOWING and SCORE_BASED,
\* 1 for MEAN_REVERSION); no other loop step changes equity.
C4_FixedFractional ==
    [][(pc = "loop" /\ pc' = "loop")
       => IF Len(trades') = Len(trades) + 1
          THEN LET pos == Val(position)
                   t == Last(trades')
                   risk == RMul(equity, RNorm(2, 100))
                   rr == RDiv(RAbs(RSub(pos.tp, RInt(pos.entry))),
                              RAbs(RSub(RInt(pos.entry), pos.sl)))
               IN  /\ rr = (IF strategy = "MEAN_REVERSION" THEN RInt(1) ELSE RInt(2))
                   /\ t.reason \in {"Stop Loss", "Take Profit"}
                   /\ t.reason = "Stop Loss" => equity' = RSub(equity, risk)
                   /\ t.reason = "Take Profit" => equity' = RAdd(equity, RMul(risk, rr))
                   /\ t.pnl = RSub(equity', equity)
          ELSE trades' = trades /\ equity' = equity]_btVars

\* a run that closed one trade at its target and one at its stop
C4_Witness ==
    /\ pc = "loop"
    /\ \E j, k \in 1..Len(trades) :
          trades[j].reason = "Take Profit" /\ trades[k].reason = "Stop Loss"
    /\ equity /= initialCapital

\* the running maximum of the first k points of an equity curve
PeakUpTo(curve, k) ==
    LET j == CHOOSE j \in 1..k :
                 \A m \in 1..k : RLe(curve[m].equity, curve[j].equity)
    IN  curve[j].equity

\* the drawdown, in percent of the peak, at point k of an equity curve
DrawdownAt(curve, k) ==
    RMul(RDiv(RSub(PeakUpTo(curve, k), curve[k].equity), PeakUpTo(curve, k)), RInt(100))

\* the largest drawdown over the closes (points 2..) of an equity curve
LargestDrawdown(curve) ==
    IF Len(curve) < 2 THEN RZero
    ELSE LET k == CHOOSE k \in 2..Len(curve) :
                      \A m \in 2..Len(curve) :
                          RLe(DrawdownAt(curve, m), DrawdownAt(curve, k))
         IN  DrawdownAt(curve, k)

\* C5: maxDrawdown is the maximum, over the closes so far, of
\* (peak - equity) / peak in percent, the peak being the running maximum of
\* equity from the initial capital on; the equity curve holds the initial
\* point and one point per close, so nothing but a close moves it; it lies
\* in [0, 100).  The returned maxDrawdown is this value.
C5_MaxDrawdown ==
    (Len(history) >= MIN_CANDLES /\ pc \in {"loop", "done"})
    => /\ Len(equityCurve) = Len(trades) + 1
       /\ equityCurve[1].equity = initialCapital
       /\ \A k \in 1..Len(trades) :
             /\ equityCurve[k + 1].time = trades[k].exitTime
             /\ equityCurve[k + 1].equity = RAdd(equityCurve[k].equity, trades[k].pnl)
       /\ Last(equityCurve).equity = equity
       /\ maxDrawdown = LargestDrawdown(equityCurve)
       /\ RLe(RZero, maxDrawdown) /\ RLt(maxDrawdown, RInt(100))
       /\ (pc = "done" => Val(result).maxDrawdown = LargestDrawdown(equityCurve))

\* a finished run whose equity rose to a new peak and then fell below it
C5_Witness ==
    /\ pc = "done"
    /\ Len(trades) >= 2
    /\ RLt(initialCapital, maxEquity)
    /\ RLt(equity, maxEquity)
    /\ RLt(RZero, Val(result).maxDrawdown)

\* the sum of |pnl| over the trades of ts with index in idx
RECURSIVE AbsPnlOver(_, _)
AbsPnlOver(ts, idx) ==
    IF idx = {} THEN RZero
    ELSE LET k == CHOOSE k \in idx : TRUE
         IN  RAdd(RAbs(ts[k].pnl), AbsPnlOver(ts, idx \ {k}))

Winners(ts) == {k \in 1..Len(ts) : RLt(RZero, ts[k].pnl)}
Losers(ts) == {k \in 1..Len(ts) : RLt(ts[k].pnl, RZero)}

\* C6: the returned profitFactor is grossProfit / grossLoss when
\* grossLoss > 0 and grossProfit itself when grossLoss = 0, grossProfit and
\* grossLoss being the sums of |pnl| over the winning and the losing closed
\* trades.
C6_ProfitFactor ==
    pc = "done"
    => LET r == Val(result)
           grossProfit == AbsPnlOver(r.trades, Winners(r.trades))
           grossLoss == AbsPnlOver(r.trades, Losers(r.trades))
       IN  /\ r.trades = trades
           /\ RLt(RZero, grossLoss) => r.profitFactor = RDiv(grossProfit, grossLoss)
           /\ grossLoss = RZero => r.profitFactor = grossProfit

\* a finished run with winning trades and no losing one
C6_Witness ==
    /\ pc = "done"
    /\ Winners(trades) /= {}
    /\ Losers(trades) = {}
    /\ RLt(RZero, Val(result).profitFactor)

\* C7: the returned winRate is wins / totalTrades (in percent) over the
\* closed trades, 0 when none closed; a position still open at the end of
\* the series adds no trade, no equity-curve point and no count.
C7_WinRate ==
    pc = "done"
    => LET r == Val(result)
       IN  /\ r.trades = trades
           /\ r.equityCurve = equityCurve
           /\ r.totalTrades = Len(trades)
           /\ r.wins = Cardinality(Winners(trades))
           /\ r.losses = Len(trades) - r.wins
           /\ r.winRate = (IF r.totalTrades = 0 THEN RZero
                           ELSE RNorm(100 * r.wins, r.totalTrades))
           /\ IsSome(position)
                => /\ \A k \in 1..Len(r.trades) :
                         /\ r.trades[k].entryTime /= Val(position).time
                         /\ r.trades[k].exitTime < Val(position).time
                   /\ \A k \in 1..Len(r.equityCurve) :
                         r.equityCurve[k].time < Val(position).time
                   /\ Len(r.equityCurve) = r.totalTrades + 1

\* a finished run with a closed trade and a position still open
C7_Witness ==
    /\ pc = "done"
    /\ IsSome(position)
    /\ Val(result).totalTrades >= 1
    /\ Val(result).wins >= 1

C9_WindowCount ==
    (wfPc = "done" /\ Len(history) >= trainSize + testSize)
    => Len(Val(wfResult).periodResults)
         = ((Len(history) - (trainSize + testSize)) \div testSize) + 1

\* C10: each emitted window starts testSize after the one before (the
\* first at 0); its test window is the testSize candles right after its
\* train window, lies inside the series and shares no candle with the test
\* window before it; a test slice shorter than testSize is never emitted.
C10_Windows ==
    [][(wfPc = "loop" /\ Len(periodResults') = Len(periodResults) + 1)
       => (/\ wfI + trainSize + testSize <= Len(history)
           /\ Last(periodResults').windowIndex = wfI
           /\ wfI = Len(periodResults) * testSize
           /\ wfI' = wfI + testSize
           /\ trainWindow' = SubSeq(history, wfI + 1, wfI + trainSize)
           /\ testWindow' = SubSeq(history, wfI + trainSize + 1,
                                   wfI + trainSize + testSize)
           /\ Len(testWindow') = testSize
           /\ testWindow'[1].time = Last(trainWindow').time + 1
           /\ Len(periodResults) > 0
                => \A c \in Range(testWindow), d \in Range(testWindow') :
                      c.time < d.time)]_vars

\* a finished analysis that emitted several windows and left a tail
\* shorter than testSize unused
C10_Witness ==
    /\ wfPc = "done"
    /\ Len(Val(wfResult).periodResults) >= 2
    /\ testSize >= 2
    /\ (Len(history) - trainSize) % testSize /= 0

\* max(0, 100 - |trainWinRate - testWinRate|) of window k of a result
StabilityOfWindow(r, k) ==
    LET d == RAbs(RSub(r.periodResults[k].train.winRate, r.periodResults[k].test.winRate))
    IN  IF RLe(d, RInt(100)) THEN RSub(RInt(100), d) ELSE RZero

\* the sum of f over the windows with index in idx
RECURSIVE SumOver(_, _, _)
SumOver(f(_, _), r, idx) ==
    IF idx = {} THEN RZero
    ELSE LET k == CHOOSE k \in idx : TRUE
         IN  RAdd(f(r, k), SumOver(f, r, idx \ {k}))

TestWinRateOfWindow(r, k) == r.periodResults[k].test.winRate

\* C11: overallStability is the arithmetic mean over the windows of
\* max(0, 100 - |trainWinRate - testWinRate|) (and averageWinRate the mean
\* of the test win rates); it lies in [0, 100]; with no window both are 0.
C11_Stability ==
    wfPc = "done"
    => LET r == Val(wfResult)
           n == Len(r.periodResults)
       IN  /\ r.periodResults = periodResults
           /\ RLe(RZero, r.overallStability) /\ RLe(r.overallStability, RInt(100))
           /\ n = 0 => r.overallStability = RZero /\ r.averageWinRate = RZero
           /\ n > 0 => /\ RMul(r.overallStability, RInt(n))
                            = SumOver(StabilityOfWindow, r, 1..n)
                       /\ RMul(r.averageWinRate, RInt(n))
                            = SumOver(TestWinRateOfWindow, r, 1..n)

\* a finished analysis whose windows differ in stability
C11_Witness ==
    /\ wfPc = "done"
    /\ Len(periodResults) >= 2
    /\ \E j, k \in 1..Len(periodResults) :
          RLt(StabilityOfWindow(Val(wfResult), j), StabilityOfWindow(Val(wfResult), k))
    /\ RLt(RZero, Val(wfResult).overallStability)
    /\ RLt(Val(wfResult).overallStability, RInt(100))

\* the result the claim names for a too-short history
Zeroed ==
    [totalTrades |-> 0, wins |-> 0, losses |-> 0, winRate |-> RZero,
     profitFactor |-> RZero, maxDrawdown |-> RZero, equityCurve |-> <<>>,
     trades |-> <<>>]

\* C12: runBacktest on fewer than 50 candles (an empty series included)
\* returns the zeroed result; a window whose train slice is that short is
\* still emitted with its test run, which starts from a capital of 1000.
C12_TooShort ==
    /\ \A k \in 1..Len(periodResults) :
          LET w == periodResults[k]
          IN  /\ trainSize < 50 => w.train = Zeroed
              /\ testSize < 50 => w.test = Zeroed
              /\ (trainSize < 50 /\ testSize >= 50)
                   => /\ Len(w.test.equityCurve) >= 1
                      /\ w.test.equityCurve[1].equity = RInt(1000)
                      /\ w.test.equityCurve[1].time = w.windowIndex + trainSize
    /\ wfPc = "done"
         => /\ IsSome(wfResult)
            /\ runBacktest(strategy, <<>>, initialCapital) = Zeroed
            /\ Len(history) < 50 => runBacktest(strategy, history, initialCapital) = Zeroed

\* a finished analysis with windows whose train slice is too short and
\* whose test slice is not
C12_Witness ==
    /\ wfPc = "done"
    /\ trainSize < 50
    /\ testSize >= 50
    /\ Len(Val(wfResult).periodResults) >= 2

(***************************************************************************)
(* The pure functions of cryptoApi.ts and HybridScannerService.ts, each    *)
(* called on its own: fnArgs holds the callee's name and its arguments,    *)
(* fnResult what it returned.                                              *)
(*                                                                         *)
(* calculateTechnicalScore is called on every combination of a few price   *)
(* series with RSI, ADX and StochRSI values on both sides of each          *)
(* threshold, every trend and every divergence type.                       *)
(***************************************************************************)
ScoreInputs ==
    [fn : {"calculateTechnicalScore"},
     prices : {<<>>, <<1000, 1000, 1000>>,
               [k \in 1..10 |-> 1000 + 10 * k], [k \in 1..10 |-> 1000 - 10 * k]},
     rsi : {None} \cup {Some(v * FP) : v \in {0, 29, 30, 51, 70, 71, 100}},
     adx : {None} \cup {Some(RInt(v)) : v \in {0, 25, 26, 100}},
     stochRsi : {None} \cup {Some([rawK |-> RInt(v)]) : v \in {0, 19, 20, 80, 81, 100}},
     trend : {"UPTREND", "DOWNTREND", "RANGING"},
     divergence : {NoDivergence, [type |-> "BULLISH", strength |-> "STRONG"],
                   [type |-> "BEARISH", strength |-> "STRONG"]}]

ScoreCall ==
    /\ fnPc = "call"
    /\ fnArgs.fn = "calculateTechnicalScore"
    /\ fnResult' = Some(calculateTechnicalScore(fnArgs.prices, fnArgs.rsi, fnArgs.adx,
                                                fnArgs.stochRsi, fnArgs.trend,
                                                fnArgs.divergence))
    /\ fnPc' = "done"
    /\ UNCHANGED <<fnArgs, fnLocals>>
    /\ UNCHANGED btVars
    /\ UNCHANGED wfVars
    /\ UNCHANGED logVars

(***************************************************************************)
(* analyzeMarketStructure is called on four flat candles followed by every *)
(* tail of StructTail prices over four levels, which holds series with two *)
(* swing highs and two swing lows in every order of height.  fnLocals      *)
(* keeps the swing arrays as the trend decision reads them, and the trend  *)
(* as it stands before the override (line 776).                            *)
(***************************************************************************)
StructTail == 6

\* and on zigzags of ClusterPeaks peaks, each followed by a trough at half
\* its height, whose peaks lie 1.5% apart or further
ClusterPeaks == 4

StructInputs ==
    LET Zigzag(peaks) ==
            <<500>> \o [k \in 1..(2 * Len(peaks)) |->
                          IF k % 2 = 1 THEN peaks[(k + 1) \div 2]
                          ELSE peaks[k \div 2] \div 2]
                    \o <<1000>>
    IN
    [fn : {"analyzeMarketStructure"},
     prices : {[k \in 1..4 |-> 1000] \o tail :
                  tail \in [1..StructTail -> {950, 980, 1020, 1060}]}
              \cup {Zigzag(peaks) :
                       peaks \in [1..ClusterPeaks -> {1000, 1015, 1030, 1100, 1200}]}]

StructureCall ==
    /\ fnPc = "call"
    /\ fnArgs.fn = "analyzeMarketStructure"
    /\ fnLocals' =
          IF Len(fnArgs.prices) < 10 THEN <<>>
          ELSE [highs |-> HighsAfterCluster(fnArgs.prices),
                lows |-> LowsAfterCluster(fnArgs.prices),
                trend |-> IF /\ Len(SwingHighs(fnArgs.prices)) >= 2
                             /\ Len(SwingLows(fnArgs.prices)) >= 2
                          THEN BaseTrend(HighsAfterCluster(fnArgs.prices),
                                         LowsAfterCluster(fnArgs.prices))
                          ELSE "RANGING"]
    /\ fnResult' = Some(analyzeMarketStructure(fnArgs.prices))
    /\ fnPc' = "done"
    /\ UNCHANGED fnArgs
    /\ UNCHANGED btVars
    /\ UNCHANGED wfVars
    /\ UNCHANGED logVars

(***************************************************************************)
(* calculateRSIArray is called with periods 2 and 3 on every series of up  *)
(* to RsiLen prices over three levels, and with the default period on      *)
(* rising and falling series around its length.  fnLocals keeps avgGain    *)
(* and avgLoss as the loop leaves them.                                    *)
(***************************************************************************)
RsiLen == 5

RsiInputs ==
    [fn : {"calculateRSIArray"},
     prices : UNION {[1..n -> {990, 1000, 1010}] : n \in 0..RsiLen},
     period : {2, 3}]
    \cup [fn : {"calculateRSIArray"},
          prices : {[k \in 1..n |-> 1000 + d * k] : n \in {14, 15, 20}, d \in {-3, 3}},
          period : {RSI_PERIOD}]

RsiCall ==
    /\ fnPc = "call"
    /\ fnArgs.fn = "calculateRSIArray"
    /\ fnLocals' =
          IF Len(fnArgs.prices) < fnArgs.period + 1 THEN <<>>
          ELSE LET s == RSILoop(fnArgs.prices, fnArgs.period,
                                [avgGain |-> 0, avgLoss |-> 0, rsiArray |-> <<>>],
                                fnArgs.period, Len(fnArgs.prices))
               IN  [avgGain |-> s.avgGain, avgLoss |-> s.avgLoss]
    /\ fnResult' = Some(calculateRSIArray(fnArgs.prices, fnArgs.period))
    /\ fnPc' = "done"
    /\ UNCHANGED fnArgs
    /\ UNCHANGED btVars
    /\ UNCHANGED wfVars
    /\ UNCHANGED logVars

(***************************************************************************)
(* cryptoApi.ts: calculateVolumeProfile, called from the idle state on     *)
(* every series of up to VpLen candles, one step per pass of the           *)
(* value-area loop.  Prices and volumes are integers; a bin's price        *)
(* min + i * step is an exact rational, and currentVol < totalVolume * 0.7 *)
(* is compared exactly.  When max = min, step is 0 and the bin index is    *)
(* NaN: no bin receives volume.                                            *)
(***************************************************************************)
\* lines 840-841
BinIndex(price, min, range, bins) ==
    LET b == ((price - min) * bins) \div range
    IN  IF b >= bins THEN bins - 1 ELSE b

\* lines 829-843: bin index -> accumulated volume
ProfileBins(prices, volumes, bins) ==
    LET min == MinOf(prices)
        range == MaxOf(prices) - min
    IN  [b \in 0..(bins - 1) |->
           IF range = 0 THEN 0
           ELSE Sum([k \in 1..Len(prices) |->
                       IF BinIndex(prices[k], min, range, bins) = b
                       THEN volumes[k] ELSE 0])]

\* lines 846-856: the first bin holding the largest volume, bin 0 if all are empty
PocIndex(profileBins, bins) ==
    IF \A b \in 0..(bins - 1) : profileBins[b] = 0 THEN 0
    ELSE CHOOSE b \in 0..(bins - 1) :
           /\ \A c \in 0..(bins - 1) : profileBins[c] <= profileBins[b]
           /\ \A c \in 0..(b - 1) : profileBins[c] < profileBins[b]

\* binKeys[i] = min + i * step
BinKey(min, range, bins, idx) == RNorm(min * bins + idx * range, bins)

DEFAULT_BINS == 24

\* how far below bin 0 the model tells values of lowIdx apart
VpUnder == 3

VpLen == 3

VpInputs ==
    [fn : {"calculateVolumeProfile"},
     series : UNION {[1..n -> [price : {100, 110, 130}, volume : {0, 4, 5}]] :
                       n \in 0..VpLen},
     bins : {3, DEFAULT_BINS}]

\* the caller's call
VpCall ==
    /\ fnPc = "idle"
    /\ fnArgs' \in VpInputs
    /\ fnPc' = "call"
    /\ UNCHANGED <<fnLocals, fnResult>>
    /\ UNCHANGED btVars
    /\ UNCHANGED wfVars
    /\ UNCHANGED logVars

\* lines 818-843: the early return, or the bins filled
VpStart ==
    /\ fnPc = "call"
    /\ IF Len(fnArgs.series) = 0
       THEN /\ fnResult' = Some([poc |-> RZero, vacLow |-> RZero, vacHigh |-> RZero,
                                 profile |-> <<>>])
            /\ fnPc' = "done"
            /\ UNCHANGED fnLocals
       ELSE /\ fnLocals' =
                 [min |-> MinOf([k \in 1..Len(fnArgs.series) |-> fnArgs.series[k].price]),
                  range |-> MaxOf([k \in 1..Len(fnArgs.series) |-> fnArgs.series[k].price])
                            - MinOf([k \in 1..Len(fnArgs.series) |-> fnArgs.series[k].price]),
                  profileBins |->
                      ProfileBins([k \in 1..Len(fnArgs.series) |-> fnArgs.series[k].price],
                                  [k \in 1..Len(fnArgs.series) |-> fnArgs.series[k].volume],
                                  fnArgs.bins)]
            /\ fnPc' = "poc"
            /\ UNCHANGED fnResult
    /\ UNCHANGED fnArgs
    /\ UNCHANGED btVars
    /\ UNCHANGED wfVars
    /\ UNCHANGED logVars

\* lines 846-868: the point of control, and the window on it alone
VpPoc ==
    /\ fnPc = "poc"
    /\ fnLocals' =
          [min |-> fnLocals.min, range |-> fnLocals.range,
           profileBins |-> fnLocals.profileBins,
           pocIndex |-> PocIndex(fnLocals.profileBins, fnArgs.bins),
           totalVolume |-> Sum([b \in 1..fnArgs.bins |-> fnLocals.profileBins[b - 1]]),
           currentVol |-> fnLocals.profileBins[PocIndex(fnLocals.profileBins, fnArgs.bins)],
           lowIdx |-> PocIndex(fnLocals.profileBins, fnArgs.bins),
           highIdx |-> PocIndex(fnLocals.profileBins, fnArgs.bins)]
    /\ fnPc' = "test"
    /\ UNCHANGED <<fnArgs, fnResult>>
    /\ UNCHANGED btVars
    /\ UNCHANGED wfVars
    /\ UNCHANGED logVars

\* line 870
VpLoopTest ==
    /\ 10 * fnLocals.currentVol < 7 * fnLocals.totalVolume
    /\ (fnLocals.lowIdx > 0 \/ fnLocals.highIdx < fnArgs.bins - 1)

\* line 870: the test holds, the body is entered
VpTest ==
    /\ fnPc = "test"
    /\ VpLoopTest
    /\ fnPc' = "body"
    /\ UNCHANGED <<fnArgs, fnLocals, fnResult>>
    /\ UNCHANGED btVars
    /\ UNCHANGED wfVars
    /\ UNCHANGED logVars

\* lines 871-880: the body of the loop.  A lowIdx at or below -VpUnder is kept
\* as -VpUnder: the loop reads lowIdx only in `lowIdx > 0`.
VpExpand ==
    /\ fnPc = "body"
    /\ LET lowerVol == IF fnLocals.lowIdx > 0
                       THEN fnLocals.profileBins[fnLocals.lowIdx - 1] ELSE 0
           upperVol == IF fnLocals.highIdx < fnArgs.bins - 1
                       THEN fnLocals.profileBins[fnLocals.highIdx + 1] ELSE 0
       IN  fnLocals' =
             IF upperVol > lowerVol
             THEN [fnLocals EXCEPT !.highIdx = @ + 1, !.currentVol = @ + upperVol]
             ELSE [fnLocals EXCEPT !.lowIdx = IF @ - 1 < -VpUnder THEN @ ELSE @ - 1,
                                   !.currentVol = @ + lowerVol]
    /\ fnPc' = "test"
    /\ UNCHANGED <<fnArgs, fnResult>>
    /\ UNCHANGED btVars
    /\ UNCHANGED wfVars
    /\ UNCHANGED logVars

\* lines 883-888
VpReturn ==
    /\ fnPc = "test"
    /\ ~VpLoopTest
    /\ LET Key(idx) == BinKey(fnLocals.min, fnLocals.range, fnArgs.bins, idx)
       IN  fnResult' = Some([poc |-> Key(fnLocals.pocIndex),
                             vacLow |-> Key(fnLocals.lowIdx),
                             vacHigh |-> Key(fnLocals.highIdx),
                             profile |-> [b \in 1..fnArgs.bins |->
                                            [price |-> Key(b - 1),
                                             volume |-> fnLocals.profileBins[b - 1]]]])
    /\ fnPc' = "done"
    /\ UNCHANGED <<fnArgs, fnLocals>>
    /\ UNCHANGED btVars
    /\ UNCHANGED wfVars
    /\ UNCHANGED logVars

InitVp ==
    /\ FnIdle
    /\ strategy = "SCORE_BASED"
    /\ history = <<>>
    /\ BTIdle
    /\ WFIdle
    /\ LogIdle

NextVp ==
    \/ VpCall
    \/ VpStart
    \/ VpPoc
    \/ VpTest
    \/ VpExpand
    \/ VpReturn

\* a call that has started runs on while it has a step to take
SpecVp == InitVp /\ [][NextVp]_vars /\ WF_vars(VpStart \/ VpPoc \/ VpTest \/ VpExpand \/ VpReturn)

(***************************************************************************)
(* HybridScannerService.ts: enrichSignal.  A signal is [signalType,        *)
(* probability, futuresData], futuresData optional with openInterest and   *)
(* a rational longShortRatio; a candle is [price, high, low, volume] with  *)
(* optional high and low; btcContext is an optional trend.  Prices,        *)
(* volumes and probabilities are integers; failureProbability is the       *)
(* number before the percent sign.                                         *)
(***************************************************************************)
ENRICH_MIN == 50
ATR_PERIOD == 14

\* cryptoApi.ts calculateATR: the mean of the last `period` true ranges
calculateATR(highs, lows, closes, period) ==
    IF Len(highs) < period + 1 THEN None
    ELSE LET tr == [k \in 1..(Len(highs) - 1) |->
                      MaxOf(<<highs[k + 1] - lows[k + 1],
                              Abs(highs[k + 1] - closes[k]),
                              Abs(lows[k + 1] - closes[k])>>)]
         IN  Some(RNorm(SumRange(tr, Len(tr) - period + 1, Len(tr)), period))

\* the last entry that is neither undefined nor NaN, else 0 (fixed point)
getLast(arr) ==
    IF \A k \in 1..Len(arr) : arr[k] = None THEN 0
    ELSE Val(arr[CHOOSE k \in 1..Len(arr) :
                   IsSome(arr[k]) /\ \A j \in (k + 1)..Len(arr) : arr[j] = None])

detectMarketRegime(hist) ==
    LET prices == Prices(hist)
        ema20 == getLast(calculateEMA(prices, 20))
        ema50 == getLast(calculateEMA(prices, 50))
        current == Last(prices)
        atr == calculateATR([k \in 1..Len(hist) |-> CandleHigh(hist[k])],
                            [k \in 1..Len(hist) |-> CandleLow(hist[k])],
                            prices, ATR_PERIOD)
        \* atr / current * 100 > 2.5
        volatile == /\ IsSome(atr) /\ Val(atr)[1] /= 0 /\ current /= 0
                    /\ 2 * 100 * Val(atr)[1] > 5 * Val(atr)[2] * current
        isUptrend == current * FP > ema20 /\ ema20 > ema50
        isDowntrend == current * FP < ema20 /\ ema20 < ema50
        period50 == SubSeq(prices, Len(prices) - 49, Len(prices))
        min50 == MinOf(period50)
        max50 == MaxOf(period50)
    IN  IF volatile THEN "VOLATILE"
        ELSE IF isUptrend \/ isDowntrend THEN "TRENDING"
        ELSE IF max50 = min50 THEN "RANGING"
        ELSE IF 10 * (current - min50) < 3 * (max50 - min50) THEN "ACCUMULATION"
        ELSE IF 10 * (current - min50) > 7 * (max50 - min50) THEN "DISTRIBUTION"
        ELSE "RANGING"

\* lastCandle.volume > avgVol * 1.5, avgVol the mean of the last 20 volumes
IsVolumeSupported(hist) ==
    LET volumes == [k \in 1..Len(hist) |-> hist[k].volume]
    IN  40 * Last(volumes) > 3 * SumRange(volumes, Len(volumes) - 19, Len(volumes))

classifyMove(signal, hist, regime) ==
    LET lastCandle == hist[Len(hist)]
        prevCandle == hist[Len(hist) - 1]
        isVolumeSupported == IsVolumeSupported(hist)
        \* movePct > 2.0
        bigMove == 100 * Abs(lastCandle.price - prevCandle.price) > 2 * prevCandle.price
    IN  IF signal.signalType \in {"BREAKOUT", "SCALPING_PUMP"} /\ ~isVolumeSupported
        THEN "LIQUIDITY_GRAB"
        ELSE IF isVolumeSupported /\ regime \in {"TRENDING", "ACCUMULATION"}
        THEN "REAL_MOMENTUM"
        ELSE IF bigMove /\ regime = "VOLATILE" THEN "NEWS_EVENT"
        ELSE IF regime = "RANGING" THEN "UNKNOWN"
        ELSE "REAL_MOMENTUM"

calculateOpportunityScore(signal, regime, classification, hist, btcContext) ==
    LET t == signal.signalType
        alignment ==
            (IF t = "TREND_CONTINUATION" /\ regime = "TRENDING" THEN 10 ELSE 0)
            + (IF t = "BREAKOUT" /\ regime = "ACCUMULATION" THEN 15 ELSE 0)
            + (IF t = "SCALPING_PUMP" /\ regime = "VOLATILE" THEN -10 ELSE 0)
            + (IF t = "SCALPING_PUMP" /\ regime = "TRENDING" THEN 10 ELSE 0)
        validation ==
            CASE classification = "REAL_MOMENTUM" -> 15
              [] classification = "LIQUIDITY_GRAB" -> -20
              [] classification = "STOP_HUNT" -> -15
              [] classification = "NEWS_EVENT" -> -5
              [] classification = "UNKNOWN" -> -5
        btc == IF btcContext = None THEN 0
               ELSE IF (IF t = "DUMP" THEN "DOWN" ELSE "UP") = Val(btcContext).trend THEN 5
               ELSE -5
        rsi == calculateRSI(Prices(hist))
        gate == IF rsi = None \/ rsi = Some(0) THEN 0
                ELSE (IF t /= "DUMP" /\ Val(rsi) > 75 * FP THEN -10 ELSE 0)
                     + (IF t /= "DUMP" /\ Val(rsi) < 40 * FP /\ regime = "TRENDING"
                        THEN 5 ELSE 0)
    IN  Clamp(50 + (signal.probability - 50) + alignment + validation + btc + gate, 1, 99)

assessRisk(score, regime, classification) ==
    [risk |-> IF regime = "VOLATILE" \/ classification = "LIQUIDITY_GRAB" THEN "HIGH"
              ELSE IF score > 80 THEN "LOW"
              ELSE IF score < 50 THEN "HIGH"
              ELSE "MEDIUM",
     failureProbability |-> 100 - score + (IF regime = "RANGING" THEN 5 ELSE 0)]

determineExecutionBias(signalType, regime) ==
    IF signalType \in {"SCALPING_PUMP", "DUMP"} THEN "BREAKOUT"
    ELSE IF regime = "TRENDING" THEN "PULLBACK"
    ELSE IF regime = "ACCUMULATION" THEN "ACCUMULATION"
    ELSE IF regime = "RANGING" THEN "MEAN_REVERSION"
    ELSE "BREAKOUT"

\* lines 73-101: [tag, score, risk] after the derivatives overlay
Overlay(baseSignal, score) ==
    IF baseSignal.futuresData = None
    THEN [tag |-> None, score |-> score, risk |-> None]
    ELSE LET fd == Val(baseSignal.futuresData)
             t == baseSignal.signalType
             ab == IF RLt(fd.longShortRatio, <<6, 10>>) /\ t /= "DUMP"
                   THEN [tag |-> Some("Potential Short Squeeze"), score |-> score + 20,
                         risk |-> Some("LOW")]
                   ELSE IF RLt(RInt(3), fd.longShortRatio) /\ t /= "DUMP"
                   THEN [tag |-> Some("Crowded Longs (Risk)"), score |-> score - 30,
                         risk |-> Some("HIGH")]
                   ELSE [tag |-> None, score |-> score, risk |-> None]
         IN  IF /\ t = "ACCUMULATION" /\ fd.openInterest > 0
                /\ RLt(fd.longShortRatio, <<8, 10>>)
             THEN [ab EXCEPT !.tag = Some("Smart Money Accumulation"), !.score = @ + 15]
             ELSE ab

\* lines 103-118, given what lines 65-71 computed
EnrichResult(baseSignal, regime, classification, adjusted) ==
    [marketRegime |-> regime,
     moveClassification |-> classification,
     opportunityScore |-> IF adjusted.score > 99 THEN 99 ELSE adjusted.score,
     riskLevel |-> IF adjusted.risk /= None THEN Val(adjusted.risk)
                   ELSE assessRisk(adjusted.score, regime, classification).risk,
     executionBias |-> determineExecutionBias(baseSignal.signalType, regime),
     failureProbability |->
         assessRisk(adjusted.score, regime, classification).failureProbability,
     institutionalTag |-> adjusted.tag]

\* lines 65-71, given the regime
EnrichInRegime(baseSignal, hist, btcContext, regime) ==
    EnrichResult(baseSignal, regime, classifyMove(baseSignal, hist, regime),
                 Overlay(baseSignal,
                         calculateOpportunityScore(baseSignal, regime,
                                                   classifyMove(baseSignal, hist, regime),
                                                   hist, btcContext)))

enrichSignal(baseSignal, hist, btcContext) ==
    IF Len(hist) < ENRICH_MIN
    THEN [marketRegime |-> "RANGING", moveClassification |-> "UNKNOWN",
          opportunityScore |-> baseSignal.probability, riskLevel |-> "MEDIUM",
          executionBias |-> "MEAN_REVERSION", failureProbability |-> 50,
          institutionalTag |-> None]
    ELSE EnrichInRegime(baseSignal, hist, btcContext, detectMarketRegime(hist))

(***************************************************************************)
(* enrichSignal is called on histories of ENRICH_MIN candles, one for each *)
(* regime (and one too short), with the last candle's volume below, near   *)
(* and above 1.5 times the average; then called again with the same        *)
(* arguments except for that volume.  fnLocals keeps the first call's      *)
(* history and result.                                                     *)
(***************************************************************************)
LastVolumes == {100, 150, 400}

EnrichHistory(shape, lastVolume) ==
    LET n == IF shape = "SHORT" THEN 10 ELSE ENRICH_MIN
        price(k) ==
            CASE shape \in {"FLAT", "SHORT", "WILD"} -> 1000
              [] shape = "JUMP" -> IF k = n THEN 1030 ELSE 1000
              [] shape = "RISE" -> 1000 + 2 * k
              [] shape = "FALL" -> 1200 - 2 * k
              [] shape = "DIP" -> 1200 - 2 * k + 3 * (k % 2)
              [] shape = "BASE" -> IF k = n THEN 1015 ELSE IF 2 * k <= n THEN 1100 ELSE 1000
              [] shape = "TOP" -> IF k = n THEN 1085 ELSE IF 2 * k <= n THEN 1000 ELSE 1100
        wick == IF shape \in {"WILD", "JUMP"} THEN 30 ELSE 0
    IN  [k \in 1..n |->
           [price |-> price(k),
            high |-> IF wick = 0 THEN None ELSE Some(price(k) + wick),
            low |-> IF wick = 0 THEN None ELSE Some(price(k) - wick),
            volume |-> IF k = n THEN lastVolume ELSE 100]]

EnrichInputs ==
    [fn : {"enrichSignal"},
     baseSignal : [signalType : {"BREAKOUT", "SCALPING_PUMP", "DUMP", "ACCUMULATION",
                                 "TREND_CONTINUATION", "UNDERVALUED"},
                   probability : {10, 50, 85, 100},
                   futuresData : {None} \cup
                       {Some([openInterest |-> oi, longShortRatio |-> <<ls, 10>>]) :
                           oi \in {0, 1}, ls \in {5, 7, 35}}
                       \cup {Some([openInterest |-> 1, longShortRatio |-> <<1, 1>>])}],
     hist : {EnrichHistory(shape, v) :
                shape \in {"FLAT", "SHORT", "WILD", "JUMP", "RISE", "FALL", "DIP",
                           "BASE", "TOP"},
                v \in LastVolumes},
     btcContext : {None, Some([trend |-> "UP"]), Some([trend |-> "DOWN"])}]

EnrichCall ==
    /\ fnPc = "call"
    /\ fnArgs.fn = "enrichSignal"
    /\ fnResult' = Some(enrichSignal(fnArgs.baseSignal, fnArgs.hist, fnArgs.btcContext))
    /\ fnPc' = "done"
    /\ UNCHANGED <<fnArgs, fnLocals>>
    /\ UNCHANGED btVars
    /\ UNCHANGED wfVars
    /\ UNCHANGED logVars

\* the second call: the same arguments but for the last candle's volume
EnrichAgain ==
    /\ fnPc = "done"
    /\ fnArgs.fn = "enrichSignal"
    /\ fnLocals = <<>>
    /\ \E v \in LastVolumes \ {Last(fnArgs.hist).volume} :
          /\ fnArgs' = [fnArgs EXCEPT !.hist[Len(fnArgs.hist)].volume = v]
          /\ fnResult' = Some(enrichSignal(fnArgs.baseSignal, fnArgs'.hist,
                                            fnArgs.btcContext))
    /\ fnLocals' = [hist |-> fnArgs.hist, result |-> Val(fnResult)]
    /\ UNCHANGED fnPc
    /\ UNCHANGED btVars
    /\ UNCHANGED wfVars
    /\ UNCHANGED logVars

(***************************************************************************)
(* unnamed/part_005: analyzeCoinWithGemini.  A reply of the language model  *)
(* is None when the request or JSON.parse throws, else the parsed object:   *)
(* an optional prediction, a targetPrice and a stopLoss.  techContext has   *)
(* mode, technicalScore, currentPrice and the structure's supports and      *)
(* resistances; lite is the reply to the SCALPING prompt, full the reply to *)
(* the narrator prompt.                                                     *)
(***************************************************************************)
\* lines 224, 257, 346
mathSignal(technicalScore) ==
    IF technicalScore > 60 THEN "BULLISH"
    ELSE IF technicalScore < 40 THEN "BEARISH"
    ELSE "NEUTRAL"

\* lines 343-407: the result built from the narrator's reply
AlignedResult(techContext, parsed) ==
    LET price == techContext.currentPrice
        Above(r) == r > price
        Below(s) == s < price
        above == SelectSeq(techContext.resistances, Above)
        below == SelectSeq(techContext.supports, Below)
        Pct(p) == (price * p) \div 100
        nextRes(default) == IF Len(above) > 0 THEN above[1] ELSE Pct(default)
        bestSupport(default) == IF Len(below) > 0 THEN MaxOf(below) ELSE Pct(default)
        prediction == mathSignal(techContext.technicalScore)
        tp == IF prediction = "NEUTRAL" THEN nextRes(102)
              ELSE IF prediction = "BULLISH"
              THEN IF parsed.targetPrice <= price THEN nextRes(105) ELSE parsed.targetPrice
              ELSE IF parsed.targetPrice >= price THEN bestSupport(95) ELSE parsed.targetPrice
        sl == IF prediction = "NEUTRAL" THEN bestSupport(98)
              ELSE IF prediction = "BULLISH"
              THEN IF parsed.stopLoss >= price THEN bestSupport(95) ELSE parsed.stopLoss
              ELSE IF parsed.stopLoss <= price THEN nextRes(105) ELSE parsed.stopLoss
        MAX_DEV == IF techContext.mode \in {"INVESTING", "SWING"} THEN 50 ELSE 15
        Far(x) == 100 * Abs(x - price) > MAX_DEV * price
    IN  [source |-> "full",
         prediction |-> Some(prediction),
         targetPrice |-> IF Far(tp) /\ prediction = "BULLISH" THEN Pct(100 + MAX_DEV)
                         ELSE IF Far(tp) /\ prediction = "BEARISH" THEN Pct(100 - MAX_DEV)
                         ELSE tp,
         stopLoss |-> IF Far(sl) /\ prediction = "BULLISH" THEN Pct(100 - MAX_DEV)
                      ELSE IF Far(sl) /\ prediction = "BEARISH" THEN Pct(100 + MAX_DEV)
                      ELSE sl]

analyzeCoinWithGemini(techContext, lite, full) ==
    IF techContext.mode = "SCALPING" /\ lite /= None
    THEN \* lines 238-248: the parsed object spread into the result
         [source |-> "lite",
          prediction |-> Val(lite).prediction,
          targetPrice |-> Val(lite).targetPrice,
          stopLoss |-> Val(lite).stopLoss]
    ELSE IF full /= None
    THEN AlignedResult(techContext, Val(full))
    ELSE \* lines 409-432
         [source |-> "error",
          prediction |-> Some("NEUTRAL"),
          targetPrice |-> techContext.currentPrice,
          stopLoss |-> (techContext.currentPrice * 95) \div 100]

GeminiInputs ==
    LET Replies == {None} \cup
                   {Some(p) : p \in [prediction : {None, Some("BULLISH"), Some("BEARISH"),
                                                    Some("NEUTRAL")},
                                      targetPrice : {900, 2000},
                                      stopLoss : {100, 1050}]}
        Contexts == [mode : {"SCALPING", "DAY", "SWING"},
                     technicalScore : {39, 40, 60, 61},
                     currentPrice : {1000},
                     supports : {<<>>, <<900, 960>>},
                     resistances : {<<>>, <<1030, 1300>>}]
        \* the SCALPING prompt is sent in SCALPING mode only, and the narrator
        \* prompt only when no SCALPING reply was parsed
        Sent(c, l, f) == /\ c.mode /= "SCALPING" => l = None
                         /\ l /= None => f = None
    IN  {[fn |-> "analyzeCoinWithGemini", techContext |-> c, lite |-> l, full |-> f] :
            <<c, l, f>> \in {x \in Contexts \X Replies \X Replies :
                                Sent(x[1], x[2], x[3])}}

GeminiCall ==
    /\ fnPc = "call"
    /\ fnArgs.fn = "analyzeCoinWithGemini"
    /\ fnResult' = Some(analyzeCoinWithGemini(fnArgs.techContext, fnArgs.lite, fnArgs.full))
    /\ fnPc' = "done"
    /\ UNCHANGED <<fnArgs, fnLocals>>
    /\ UNCHANGED btVars
    /\ UNCHANGED wfVars
    /\ UNCHANGED logVars

(***************************************************************************)
(* BacktestService: runSensitivityAnalysis(history).  A weight table is a  *)
(* record over the factors and orderBook.                                  *)
(***************************************************************************)
factors == <<"momentum", "trend", "rsiOverbought", "rsiOversold", "adx", "stoch", "div">>

baseWeights ==
    [momentum |-> 10, trend |-> 10, rsiOverbought |-> 20, rsiOversold |-> 10,
     adx |-> 5, stoch |-> 10, div |-> 15, orderBook |-> 10]

\* part_007 lines 155-164: the score runBacktest computes when it was given
\* weights.  The call passes eight arguments, (lookbackPrices, rsi, adx,
\* stoch, structure.trend, divergence, undefined, weights), to a function of
\* six parameters, which reads the first six.
ScoreWith(lookbackPrices, weights) ==
    LET arguments == <<lookbackPrices,
                       calculateRSI(lookbackPrices),
                       calculateADX(<<>>, <<>>, lookbackPrices),
                       calculateStochRSI(lookbackPrices),
                       analyzeMarketStructure(lookbackPrices).trend,
                       detectRSIDivergence(lookbackPrices, <<>>),
                       None,
                       Some(weights)>>
    IN  calculateTechnicalScore(arguments[1], arguments[2], arguments[3],
                                arguments[4], arguments[5], arguments[6])

runSensitivityAnalysis(hist) ==
    LET \* runBacktest('SCORE_BASED', history, 1000, weights) hands weights to the
        \* call of ScoreWith and reads them nowhere else; ScoreWith gives the
        \* score of ScoreOf, on which EntrySignal decides
        runBacktestWith(weights) ==
            runBacktest("SCORE_BASED", hist, RInt(DEFAULT_CAPITAL))
        Variation(baseResult, res, factor, change) ==
            [factor |-> factor, change |-> change, winRate |-> res.winRate,
             profitFactor |-> res.profitFactor,
             impact |-> IF RLt(baseResult.winRate, res.winRate) THEN "POSITIVE"
                        ELSE IF RLt(res.winRate, baseResult.winRate) THEN "NEGATIVE"
                        ELSE "NEUTRAL"]
        Variations(baseResult) ==
            [k \in 1..(2 * Len(factors)) |->
                IF k % 2 = 1
                THEN Variation(baseResult,
                               runBacktestWith([baseWeights EXCEPT
                                   ![factors[(k + 1) \div 2]] = (@ * 120) \div 100]),
                               factors[(k + 1) \div 2], "+20%")
                ELSE Variation(baseResult,
                               runBacktestWith([baseWeights EXCEPT
                                   ![factors[k \div 2]] = (@ * 80) \div 100]),
                               factors[k \div 2], "-20%")]
        Diff(variations, k) ==
            RAbs(RSub(variations[2 * k - 1].winRate, variations[2 * k].winRate))
        RECURSIVE MostSensitive(_, _, _, _)
        MostSensitive(variations, k, maxDiff, mostSensitive) ==
            IF k > Len(factors) THEN mostSensitive
            ELSE IF RLt(maxDiff, Diff(variations, k))
            THEN MostSensitive(variations, k + 1, Diff(variations, k), factors[k])
            ELSE MostSensitive(variations, k + 1, maxDiff, mostSensitive)
        Report(baseResult, variations) ==
            [baseWinRate |-> baseResult.winRate,
             variations |-> variations,
             mostSensitiveFactor |-> MostSensitive(variations, 1, RZero, "None")]
        From(baseResult) == Report(baseResult, Variations(baseResult))
    IN  From(runBacktest("SCORE_BASED", hist, RInt(DEFAULT_CAPITAL)))

\* the series: three shapes on 49 candles and on 50 candles and up to
\* SensSteps times 10 more
SensSteps == 4

SensInputs ==
    [fn : {"runSensitivityAnalysis"},
     hist : {ShapeSeries(shape, n) :
                shape \in {"RANGE", "ZIGZAG", "WAVE"},
                n \in {MIN_CANDLES - 1} \cup
                      {MIN_CANDLES + 10 * k : k \in 0..SensSteps}}]

SensitivityCall ==
    /\ fnPc = "call"
    /\ fnArgs.fn = "runSensitivityAnalysis"
    /\ fnResult' = Some(runSensitivityAnalysis(fnArgs.hist))
    /\ fnPc' = "done"
    /\ UNCHANGED <<fnArgs, fnLocals>>
    /\ UNCHANGED btVars
    /\ UNCHANGED wfVars
    /\ UNCHANGED logVars

FnInputs ==
    ScoreInputs \cup StructInputs \cup RsiInputs \cup EnrichInputs \cup GeminiInputs
    \cup SensInputs

InitFn ==
    /\ fnPc = "call"
    /\ fnArgs \in FnInputs
    /\ fnLocals = <<>>
    /\ fnResult = None
    /\ strategy = "SCORE_BASED"
    /\ history = <<>>
    /\ BTIdle
    /\ WFIdle
    /\ LogIdle

NextFn ==
    \/ ScoreCall
    \/ StructureCall
    \/ RsiCall
    \/ EnrichCall
    \/ EnrichAgain
    \/ GeminiCall
    \/ SensitivityCall

SpecFn == InitFn /\ [][NextFn]_vars

(***************************************************************************)
(* Properties of calculateTechnicalScore.                                  *)
(***************************************************************************)
IsCall(name) == fnPc = "done" /\ fnArgs.fn = name

\* C13: calculateTechnicalScore returns a value in [0, 100] for every
\* combination of inputs, and exactly 50 when no factor applies (EMA9
\* undefined, trend RANGING, RSI, ADX and StochRSI null, divergence NONE).
C13_ScoreRange ==
    IsCall("calculateTechnicalScore")
    => /\ Val(fnResult) \in 0..100
       /\ (/\ Len(fnArgs.prices) < 9
           /\ fnArgs.trend = "RANGING"
           /\ fnArgs.rsi = None /\ fnArgs.adx = None /\ fnArgs.stochRsi = None
           /\ fnArgs.divergence.type = "NONE")
          => Val(fnResult) = 50

\* every bullish factor at once: the sum of 117 is returned as 100
C13_Witness ==
    /\ IsCall("calculateTechnicalScore")
    /\ Len(fnArgs.prices) >= 9
    /\ Last(fnArgs.prices) > fnArgs.prices[1]
    /\ fnArgs.trend = "UPTREND"
    /\ fnArgs.rsi = Some(0)
    /\ fnArgs.adx = Some(RInt(100))
    /\ fnArgs.stochRsi = Some([rawK |-> RInt(0)])
    /\ fnArgs.divergence.type = "BULLISH"
    /\ Val(fnResult) = 100

(***************************************************************************)
(* Properties of analyzeMarketStructure.                                   *)
(***************************************************************************)
\* the call found at least two swing highs and two swing lows
TwoSwingsEach ==
    /\ IsCall("analyzeMarketStructure")
    /\ Len(SwingHighs(fnArgs.prices)) >= 2
    /\ Len(SwingLows(fnArgs.prices)) >= 2

\* C14: with at least two swing highs and two swing lows, the trend before
\* the override is the one given by the two chronologically most recent
\* swing highs and the two chronologically most recent swing lows.
C14_BaseTrend ==
    TwoSwingsEach
    => fnLocals.trend = BaseTrend(SwingHighs(fnArgs.prices), SwingLows(fnArgs.prices))

\* C15: the override compares the last price with the chronologically
\* latest swing high and swing low, and changes the trend in no other case.
C15_Override ==
    TwoSwingsEach
    => Val(fnResult).trend = BosOverride(fnLocals.trend, Last(fnArgs.prices),
                                         Last(SwingHighs(fnArgs.prices)),
                                         Last(SwingLows(fnArgs.prices)))

(***************************************************************************)
(* Properties of calculateRSIArray.                                        *)
(***************************************************************************)
StrictlyIncreasing(s) == \A k \in 1..(Len(s) - 1) : s[k] < s[k + 1]

\* C18: every defined entry of the RSI series is in [0, 100]; the entries at
\* indices below the period are undefined; the last entry is exactly 100
\* when the smoothed average loss is 0 (every entry is the last one of the
\* call on a prefix); on a strictly increasing series every defined entry
\* is 100.
C18_RsiRange ==
    IsCall("calculateRSIArray")
    => LET rsiArray == Val(fnResult)
       IN  /\ Len(rsiArray) = Len(fnArgs.prices)
           /\ \A k \in 1..Len(rsiArray) :
                 /\ IsSome(rsiArray[k]) => Val(rsiArray[k]) \in 0..(100 * FP)
                 /\ k <= fnArgs.period => rsiArray[k] = None
                 /\ (IsSome(rsiArray[k]) /\ StrictlyIncreasing(fnArgs.prices))
                    => Val(rsiArray[k]) = 100 * FP
           /\ (fnLocals /= <<>> /\ fnLocals.avgLoss = 0)
              => Last(rsiArray) = Some(100 * FP)

\* a strictly increasing series longer than the period: its entries from
\* the period on are defined, and 100
C18_Witness ==
    /\ IsCall("calculateRSIArray")
    /\ StrictlyIncreasing(fnArgs.prices)
    /\ Len(fnArgs.prices) > fnArgs.period + 1
    /\ fnLocals.avgLoss = 0
    /\ \A k \in (fnArgs.period + 1)..Len(fnArgs.prices) :
          Val(fnResult)[k] = Some(100 * FP)

(***************************************************************************)
(* Properties of calculateVolumeProfile.                                   *)
(***************************************************************************)
NonDegenerate ==
    /\ fnPc \in {"test", "body", "done"}
    /\ Len(fnArgs.series) > 0
    /\ fnLocals.range > 0
    /\ fnLocals.totalVolume > 0

\* C16: on a non-degenerate input the value-area indices stay inside
\* 0..bins-1 with lowIdx <= pocIndex <= highIdx throughout the expansion,
\* and the result has vacLow <= poc <= vacHigh, each the price of a bin.
C16_ValueArea ==
    NonDegenerate
    => /\ fnLocals.lowIdx \in 0..(fnArgs.bins - 1)
       /\ fnLocals.highIdx \in 0..(fnArgs.bins - 1)
       /\ fnLocals.lowIdx <= fnLocals.pocIndex
       /\ fnLocals.pocIndex <= fnLocals.highIdx
       /\ fnPc = "done"
          => LET r == Val(fnResult)
                 keys == {r.profile[b].price : b \in 1..fnArgs.bins}
             IN  /\ RLe(r.vacLow, r.poc) /\ RLe(r.poc, r.vacHigh)
                 /\ {r.vacLow, r.poc, r.vacHigh} \subseteq keys

\* C17: every call of calculateVolumeProfile returns.
C17_Terminates ==
    (fnPc = "call") ~> (fnPc = "done")

(***************************************************************************)
(* Properties of enrichSignal.                                             *)
(***************************************************************************)
\* 40 * the last candle's volume, and 3 * the sum of the last 20 volumes:
\* the volume is above 1.5 times the average when the first is the larger
LastVolume40(hist) == 40 * hist[Len(hist)].volume
Trailing20Sum3(hist) == 3 * SumRange([k \in 1..Len(hist) |-> hist[k].volume],
                                     Len(hist) - 19, Len(hist))

\* two calls have been made on at least 50 candles, with a BREAKOUT signal,
\* the first with the last volume below 1.5 times the average, the second above
UnconfirmedThenConfirmed ==
    /\ IsCall("enrichSignal")
    /\ fnLocals /= <<>>
    /\ fnArgs.baseSignal.signalType = "BREAKOUT"
    /\ Len(fnArgs.hist) >= 50
    /\ LastVolume40(fnLocals.hist) < Trailing20Sum3(fnLocals.hist)
    /\ LastVolume40(fnArgs.hist) > Trailing20Sum3(fnArgs.hist)

\* C19: of two calls that differ only in the last candle's volume, the one
\* with the volume below 1.5 times the average is classified LIQUIDITY_GRAB
\* and has the strictly lower opportunityScore.
C19_GrabScoresLower ==
    UnconfirmedThenConfirmed
    => /\ fnLocals.result.moveClassification = "LIQUIDITY_GRAB"
       /\ fnLocals.result.opportunityScore < Val(fnResult).opportunityScore

\* C20: the opportunityScore of every result is within 1..99.
C20_ScoreBounds ==
    IsCall("enrichSignal") => Val(fnResult).opportunityScore \in 1..99

\* C21: with futures data whose longShortRatio exceeds 3.0, on at least 50
\* candles and whatever the signal type, the result carries the
\* crowded-longs tag, its riskLevel is HIGH and its score is 30 below the
\* score of the same call without futures data; and a risk level set by the
\* overlay is the one returned.
C21_CrowdedLongs ==
    (/\ IsCall("enrichSignal")
     /\ Len(fnArgs.hist) >= ENRICH_MIN
     /\ fnArgs.baseSignal.futuresData /= None)
    => LET r == Val(fnResult)
           plain == enrichSignal([fnArgs.baseSignal EXCEPT !.futuresData = None],
                                 fnArgs.hist, fnArgs.btcContext)
           set == Overlay(fnArgs.baseSignal, 0).risk
       IN  /\ RLt(RInt(3), Val(fnArgs.baseSignal.futuresData).longShortRatio)
              => /\ r.institutionalTag = Some("Crowded Longs (Risk)")
                 /\ r.riskLevel = "HIGH"
                 /\ r.opportunityScore = plain.opportunityScore - 30
           /\ set /= None => r.riskLevel = Val(set)

\* C28: on at least 50 candles the failureProbability is 100 minus the
\* returned opportunityScore, plus 5 in the RANGING regime, and lies within
\* 0..100, with or without the derivatives overlay.
C28_FailureProbability ==
    (IsCall("enrichSignal") /\ Len(fnArgs.hist) >= ENRICH_MIN)
    => LET r == Val(fnResult)
       IN  /\ r.failureProbability =
                100 - r.opportunityScore + (IF r.marketRegime = "RANGING" THEN 5 ELSE 0)
           /\ r.failureProbability \in 0..100

(***************************************************************************)
(* Properties of analyzeCoinWithGemini.                                    *)
(***************************************************************************)
\* C22: every result built from the language model's reply, on the SCALPING
\* fast path as on the full path and whatever the reply holds, has the
\* prediction derived from the technical score: BULLISH above 60, BEARISH
\* below 40, NEUTRAL otherwise.
C22_PredictionFromScore ==
    (IsCall("analyzeCoinWithGemini") /\ Val(fnResult).source \in {"lite", "full"})
    => Val(fnResult).prediction = Some(mathSignal(fnArgs.techContext.technicalScore))

\* the clusters of the claim: a sorted level joins the current cluster when
\* it is at most 2% above the running average of that cluster
RECURSIVE AverageClusters(_, _, _, _, _)
AverageClusters(levels, k, sum, count, clusters) ==
    IF k > Len(levels) THEN Append(clusters, RNorm(sum, count))
    ELSE IF 100 * count * levels[k] <= 102 * sum
    THEN AverageClusters(levels, k + 1, sum + levels[k], count + 1, clusters)
    ELSE AverageClusters(levels, k + 1, levels[k], 1, Append(clusters, RNorm(sum, count)))

ClustersByAverage(levels) ==
    IF Len(levels) = 0 THEN <<>>
    ELSE AverageClusters(SortAsc(levels), 2, SortAsc(levels)[1], 1, <<>>)

\* the three highest and the three lowest entries of an ascending list
HighestThree(s) == SubSeq(s, IF Len(s) > 3 THEN Len(s) - 2 ELSE 1, Len(s))
LowestThree(s) == SubSeq(s, 1, IF Len(s) > 3 THEN 3 ELSE Len(s))

AscendingR(s) == \A k \in 1..(Len(s) - 1) : RLt(s[k], s[k + 1])

\* C23: on at least 10 prices the swing levels are sorted ascending and a
\* level is merged into the current cluster exactly when it lies within 2%
\* of the cluster's running average, each cluster being the mean of its
\* members; resistances are the (at most 3) highest clusters of the swing
\* highs, supports the (at most 3) lowest clusters of the swing lows, each
\* list ascending.
C23_Clusters ==
    (IsCall("analyzeMarketStructure") /\ Len(fnArgs.prices) >= 10)
    => LET r == Val(fnResult)
           byHigh == ClustersByAverage(SwingHighs(fnArgs.prices))
           byLow == ClustersByAverage(SwingLows(fnArgs.prices))
       IN  /\ r.resistances = HighestThree(byHigh)
           /\ r.supports = LowestThree(byLow)
           /\ Len(r.resistances) <= 3 /\ Len(r.supports) <= 3
           /\ AscendingR(r.resistances) /\ AscendingR(r.supports)

(***************************************************************************)
(* Properties of runSensitivityAnalysis.                                   *)
(***************************************************************************)
\* the weight table with the k-th factor's weight at percent % of its base
Perturbed(k, percent) ==
    [baseWeights EXCEPT ![factors[k]] = (@ * percent) \div 100]

\* the factor has a part in the score of these prices
Contributes(factor, prices) ==
    LET rsi == calculateRSI(prices)
        adx == calculateADX(<<>>, <<>>, prices)
        stoch == calculateStochRSI(prices)
        trend == analyzeMarketStructure(prices).trend
    IN  CASE factor = "momentum" -> Len(calculateEMA(prices, 9)) > 0
          [] factor = "trend" -> trend /= "RANGING"
          [] factor = "rsiOverbought" -> IsSome(rsi) /\ Val(rsi) > 70 * FP
          [] factor = "rsiOversold" -> IsSome(rsi) /\ Val(rsi) < 30 * FP
          [] factor = "adx" -> IsSome(adx) /\ RLt(RInt(25), Val(adx)) /\ trend /= "RANGING"
          [] factor = "stoch" -> /\ IsSome(stoch)
                                 /\ \/ RLt(Val(stoch).rawK, RInt(20))
                                    \/ RLt(RInt(80), Val(stoch).rawK)
          [] factor = "div" -> detectRSIDivergence(prices, <<>>).type /= "NONE"

\* the swing of the k-th factor in a report
Swing(r, k) == RAbs(RSub(r.variations[2 * k - 1].winRate, r.variations[2 * k].winRate))

\* C24: the report holds, for each of the 7 factors in order, the run with
\* its weight raised by 20% and the run with it lowered by 20%; where a
\* factor has a part in the score of the first entry decision and that
\* score is not at a clamp, the score with the raised weight differs from
\* the score with the lowered weight; and mostSensitiveFactor is the first
\* factor with the largest swing of win rate, 'None' only when every swing
\* is 0.
C24_Sensitivity ==
    (IsCall("runSensitivityAnalysis") /\ Len(fnArgs.hist) > LOOP_START)
    => LET r == Val(fnResult)
           first51 == Slice(Prices(fnArgs.hist), 0, LOOP_START + 1)
           Largest(k) == \A j \in 1..Len(factors) : RLe(Swing(r, j), Swing(r, k))
       IN  /\ Len(r.variations) = 2 * Len(factors)
           /\ \A k \in 1..Len(factors) :
                 /\ r.variations[2 * k - 1].factor = factors[k]
                 /\ r.variations[2 * k - 1].change = "+20%"
                 /\ r.variations[2 * k].factor = factors[k]
                 /\ r.variations[2 * k].change = "-20%"
                 /\ (Contributes(factors[k], first51) /\ ScoreOf(first51) \in 1..99)
                    => ScoreWith(first51, Perturbed(k, 120))
                          /= ScoreWith(first51, Perturbed(k, 80))
           /\ IF \A k \in 1..Len(factors) : Swing(r, k) = RZero
              THEN r.mostSensitiveFactor = "None"
              ELSE \E k \in 1..Len(factors) :
                      /\ r.mostSensitiveFactor = factors[k]
                      /\ Largest(k)
                      /\ \A j \in 1..(k - 1) : ~Largest(j)

(***************************************************************************)
(* Properties of the walk-forward test windows.                            *)
(***************************************************************************)
\* max(0, 100 - trainWinRate) of window k of a result
TrainOnlyStability(r, k) ==
    LET w == r.periodResults[k].train.winRate
    IN  IF RLe(w, RInt(100)) THEN RSub(RInt(100), w) ELSE RZero

\* C25: with testSize <= 50 the backtest of every test window closes no
\* trade and has winRate 0; each window's stability is
\* max(0, 100 - trainWinRate), so that overallStability is the mean of
\* these, and averageWinRate is 0.
C25_IdleTestWindows ==
    testSize <= 50
    => /\ \A k \in 1..Len(periodResults) :
             /\ periodResults[k].test.totalTrades = 0
             /\ periodResults[k].test.trades = <<>>
             /\ periodResults[k].test.winRate = RZero
       /\ wfPc = "done"
            => LET r == Val(wfResult)
                   n == Len(r.periodResults)
               IN  /\ \A k \in 1..n :
                         StabilityOfWindow(r, k) = TrainOnlyStability(r, k)
                   /\ RMul(r.overallStability, RInt(n))
                         = SumOver(TrainOnlyStability, r, 1..n)
                   /\ r.averageWinRate = RZero

\* a finished analysis with the default test size of 50 and several
\* windows, in one of which the train run closed winning trades
C25_Witness ==
    /\ wfPc = "done"
    /\ testSize = DEFAULT_TEST
    /\ Len(periodResults) >= 2
    /\ \E j \in 1..Len(periodResults) :
          /\ periodResults[j].train.totalTrades > 0
          /\ RLt(RZero, periodResults[j].train.winRate)
    /\ RLt(Val(wfResult).overallStability, RInt(100))
    /\ Val(wfResult).averageWinRate = RZero

(***************************************************************************)
(* Properties of the trade log and the equity curve.                       *)
(***************************************************************************)
\* C26: the trade log is chronological and its trades do not overlap: every
\* trade exits on a candle strictly later than its entry candle, and enters
\* on a candle strictly later than the exit candle of the trade before it.
C26_TradeOrder ==
    \A k \in 1..Len(trades) :
       /\ trades[k].entryTime < trades[k].exitTime
       /\ k > 1 => trades[k - 1].exitTime < trades[k].entryTime

\* a returned log of two trades
C26_Witness ==
    /\ pc = "done"
    /\ Len(Val(result).trades) >= 2
    /\ Val(result).trades = trades

\* C27: a result on at least 50 candles has an equity curve of
\* totalTrades + 1 points, the initial capital at the first candle's time
\* and then one point per closed trade at its exit time; totalTrades is the
\* length of the trade log and wins + losses = totalTrades; with a positive
\* initial capital the equity stays strictly positive.
C27_Bookkeeping ==
    /\ (pc = "done" /\ Len(history) >= MIN_CANDLES)
       => LET r == Val(result)
          IN  /\ Len(r.equityCurve) = r.totalTrades + 1
              /\ r.equityCurve[1] = [time |-> history[1].time, equity |-> initialCapital]
              /\ \A k \in 1..Len(r.trades) :
                    r.equityCurve[k + 1].time = r.trades[k].exitTime
              /\ r.totalTrades = Len(r.trades)
              /\ r.wins + r.losses = r.totalTrades
              /\ RLt(RZero, initialCapital)
                    => \A k \in 1..Len(r.equityCurve) : RLt(RZero, r.equityCurve[k].equity)
    /\ (pc = "loop" /\ RLt(RZero, initialCapital)) => RLt(RZero, equity)

\* a result with a winning and a losing trade
C27_Witness ==
    /\ pc = "done"
    /\ Val(result).wins >= 1
    /\ Val(result).losses >= 1
    /\ Len(Val(result).equityCurve) = 3

(***************************************************************************)
(* Properties of the SCORE_BASED entry score.                              *)
(***************************************************************************)
\* the prices the entry logic of iteration idx looks back on
LookbackAt(idx) == Slice(Prices(history), 0, idx + 1)

MaxPredictions == 2

\* lines 48-131: the entry checkPredictions returns for pred
Checked(pred, outcome) ==
    IF pred.status /= "PENDING" THEN pred
    ELSE IF pred.predictionType = "NEUTRAL" THEN pred
    ELSE IF outcome = None THEN pred
    ELSE [pred EXCEPT !.status = Val(outcome).status,
                      !.finalPrice = Some(Val(outcome).finalPrice),
                      !.marketTrend = Some("computed")]

\* loadPredictions: a stored list of up to MaxPredictions predictions
InitLog ==
    /\ \E n \in 1..MaxPredictions :
          predictions \in
             {l \in [1..n -> [id : 1..MaxPredictions,
                              status : {"PENDING", "WIN", "LOSS"},
                              predictionType : {"BULLISH", "NEUTRAL"},
                              finalPrice : {None, Some("target")},
                              marketTrend : {None}]] :
                 \A k \in 1..n :
                    /\ l[k].id = k
                    /\ (l[k].finalPrice = None) <=> (l[k].status = "PENDING")}
    /\ localStorage = predictions
    /\ loading = FALSE
    /\ closure = None
    /\ strategy = "SCORE_BASED"
    /\ history = <<>>
    /\ BTIdle
    /\ WFIdle
    /\ FnIdle

\* lines 42-48: the button is enabled while loading is false; the run holds
\* the predictions of this render
CheckStart ==
    /\ ~loading
    /\ closure = None
    /\ loading' = TRUE
    /\ closure' = Some(predictions)
    /\ UNCHANGED <<predictions, localStorage>>
    /\ UNCHANGED <<btVars, wfVars, fnVars>>

\* lines 133-141: every fetch has resolved.  The candles fetched for one
\* prediction lead to nothing to go on (lines 66, 76: None) or to the status
\* and final price of lines 78-122.
CheckFinish ==
    /\ closure /= None
    /\ \E outcome \in [1..Len(Val(closure)) ->
                          {None} \cup
                          {Some(o) : o \in {[status |-> "WIN", finalPrice |-> "target"],
                                           [status |-> "LOSS", finalPrice |-> "stop"],
                                           [status |-> "LOSS", finalPrice |-> "last"],
                                           [status |-> "PENDING", finalPrice |-> "last"]}}] :
          LET updatedPredictions ==
                 [k \in 1..Len(Val(closure)) |-> Checked(Val(closure)[k], outcome[k])]
          IN  /\ predictions' = updatedPredictions
              /\ localStorage' = updatedPredictions
    /\ loading' = FALSE
    /\ closure' = None
    /\ UNCHANGED <<btVars, wfVars, fnVars>>

\* lines 137-141: the import or a fetch has failed
CheckFail ==
    /\ closure /= None
    /\ loading' = FALSE
    /\ closure' = None
    /\ UNCHANGED <<predictions, localStorage>>
    /\ UNCHANGED <<btVars, wfVars, fnVars>>

\* lines 144-152, from the buttons of a PENDING row (lines 398-403)
manualUpdateStatus ==
    /\ \E k \in 1..Len(predictions), newStatus \in {"WIN", "LOSS"} :
          /\ predictions[k].status = "PENDING"
          /\ LET updated ==
                     [predictions EXCEPT
                         ![k].status = newStatus,
                         ![k].finalPrice = IF IsSome(@) THEN @ ELSE Some("entry")]
             IN  /\ predictions' = updated
                 /\ localStorage' = updated
    /\ UNCHANGED <<loading, closure>>
    /\ UNCHANGED <<btVars, wfVars, fnVars>>

\* lines 184-190
deletePrediction ==
    /\ \E k \in 1..Len(predictions) :
          LET Other(p) == p.id /= predictions[k].id
              filtered == SelectSeq(predictions, Other)
          IN  /\ predictions' = filtered
              /\ localStorage' = filtered
    /\ UNCHANGED <<loading, closure>>
    /\ UNCHANGED <<btVars, wfVars, fnVars>>

NextLog ==
    \/ CheckStart
    \/ CheckFinish
    \/ CheckFail
    \/ manualUpdateStatus
    \/ deletePrediction

SpecLog == InitLog /\ [][NextLog]_vars

(***************************************************************************)
(* Properties of the LearningLog.                                          *)
(***************************************************************************)
\* the status a list holds for an id, None when the id is not in it
StatusIn(list, id) ==
    IF \E k \in 1..Len(list) : list[k].id = id
    THEN Some(list[CHOOSE k \in 1..Len(list) : list[k].id = id].status)
    ELSE None

\* C30: when a checkPredictions run completes, the state and localStorage
\* agree and still reflect what was done while it awaited: a prediction
\* deleted meanwhile stays deleted and a status set by hand meanwhile is
\* kept; and the run changes no prediction whose status is already WIN or
\* LOSS.
C30_NoLostUpdate ==
    [][(closure /= None /\ closure' = None)
       => /\ localStorage' = predictions'
          /\ \A id \in 1..MaxPredictions :
                /\ StatusIn(predictions, id) = None
                     => StatusIn(predictions', id) = None
                /\ StatusIn(predictions, id) /= StatusIn(Val(closure), id)
                     => StatusIn(predictions', id) = StatusIn(predictions, id)
                /\ StatusIn(predictions, id) \in {Some("WIN"), Some("LOSS")}
                     => StatusIn(predictions', id) = StatusIn(predictions, id)]_vars

=============================================================================
